---- MODULE Spec2Model ----
(***************************************************************************)
(* Model of phyton_analyzer/packet_capture_fixed.py: the streaming record  *)
(* extractor (StreamingJSONParser) and the capture session                 *)
(* (EnhancedPacketCapture) with its analysis thread, its snapshot readers  *)
(* and its bounded packet queue.                                           *)
(*                                                                         *)
(* Text is a sequence of one-character strings.  Python indices are kept   *)
(* 0-based in the variables i and start_pos; buffer[i] is buffer[i + 1]    *)
(* here.                                                                   *)
(***************************************************************************)
EXTENDS Integers, Sequences, FiniteSets, TLC

(***************************************************************************)
(* Bounds of the model.                                                    *)
(***************************************************************************)
\* max_buffer_size of the parser whose overruns are explored
MaxBufSmall == 5
\* max_buffer_size of the parser that never overruns on the streams below
MaxBufLarge == 24
\* feed calls per run
MaxFeeds == 3
\* well-formed records per stream
MaxRecords == 2

(***************************************************************************)
(* Characters and JSON values.  A value is the sequence of its tokens:     *)
(* punctuation, or a string with its decoded content.                      *)
(***************************************************************************)
LB == "{"
RB == "}"
QT == "\""
BS == "\\"
CL == ":"
LA == "a"

P(c) == [k |-> "p", v |-> <<c>>]
S(content) == [k |-> "s", v |-> content]

RECURSIVE Flatten(_)
Flatten(ss) == IF ss = <<>> THEN <<>> ELSE Head(ss) \o Flatten(Tail(ss))

\* json.dumps of one string: quotes and backslashes are escaped
RECURSIVE DumpsContent(_)
DumpsContent(content) ==
    IF content = <<>> THEN <<>>
    ELSE (IF Head(content) \in {QT, BS} THEN <<BS, Head(content)>>
          ELSE <<Head(content)>>) \o DumpsContent(Tail(content))

DumpsToken(t) ==
    IF t.k = "p" THEN t.v ELSE <<QT>> \o DumpsContent(t.v) \o <<QT>>

\* json.dumps of a value, without whitespace
Dumps(val) == Flatten([n \in 1..Len(val) |-> DumpsToken(val[n])])

\* TRUE at the characters of the text that lie inside a string literal
\* (between its delimiting quotes), FALSE at punctuation and delimiters
MaskToken(t) ==
    IF t.k = "p" THEN <<FALSE>>
    ELSE <<FALSE>> \o [n \in 1..Len(DumpsContent(t.v)) |-> TRUE] \o <<FALSE>>

MaskOf(val) == Flatten([n \in 1..Len(val) |-> MaskToken(val[n])])

(***************************************************************************)
(* json.loads on the alphabet above: a tokenizer and the object grammar    *)
(*   value  ::= string | object                                            *)
(*   object ::= "{" "}" | "{" string ":" value "}"                         *)
(* The result is [ok, val]; ok = FALSE stands for json.JSONDecodeError.    *)
(***************************************************************************)
RECURSIVE LexStr(_, _, _)
LexStr(s, p, content) ==
    IF p > Len(s) THEN [ok |-> FALSE, next |-> p, content |-> content]
    ELSE IF s[p] = QT THEN [ok |-> TRUE, next |-> p + 1, content |-> content]
    ELSE IF s[p] = BS THEN
        IF p + 1 <= Len(s) /\ s[p + 1] \in {QT, BS}
        THEN LexStr(s, p + 2, Append(content, s[p + 1]))
        ELSE [ok |-> FALSE, next |-> p, content |-> content]
    ELSE LexStr(s, p + 1, Append(content, s[p]))

RECURSIVE Lex(_, _, _)
Lex(s, p, acc) ==
    IF p > Len(s) THEN [ok |-> TRUE, toks |-> acc]
    ELSE IF s[p] \in {LB, RB, CL} THEN Lex(s, p + 1, Append(acc, P(s[p])))
    ELSE IF s[p] = QT THEN
        LET r == LexStr(s, p + 1, <<>>) IN
        IF r.ok THEN Lex(s, r.next, Append(acc, S(r.content)))
        ELSE [ok |-> FALSE, toks |-> acc]
    ELSE [ok |-> FALSE, toks |-> acc]

RECURSIVE ParseValue(_, _)
ParseValue(toks, p) ==
    IF p > Len(toks) THEN [ok |-> FALSE, next |-> p]
    ELSE IF toks[p].k = "s" THEN [ok |-> TRUE, next |-> p + 1]
    ELSE IF toks[p] # P(LB) THEN [ok |-> FALSE, next |-> p]
    ELSE IF p + 1 <= Len(toks) /\ toks[p + 1] = P(RB)
        THEN [ok |-> TRUE, next |-> p + 2]
    ELSE IF p + 2 <= Len(toks) /\ toks[p + 1].k = "s" /\ toks[p + 2] = P(CL)
        THEN LET r == ParseValue(toks, p + 3) IN
             IF r.ok /\ r.next <= Len(toks) /\ toks[r.next] = P(RB)
             THEN [ok |-> TRUE, next |-> r.next + 1]
             ELSE [ok |-> FALSE, next |-> p]
    ELSE [ok |-> FALSE, next |-> p]

JsonLoads(s) ==
    LET l == Lex(s, 1, <<>>) IN
    IF ~l.ok THEN [ok |-> FALSE, val |-> <<>>]
    ELSE LET r == ParseValue(l.toks, 1) IN
         IF r.ok /\ r.next = Len(l.toks) + 1
         THEN [ok |-> TRUE, val |-> l.toks]
         ELSE [ok |-> FALSE, val |-> <<>>]

(***************************************************************************)
(* State.                                                                  *)
(***************************************************************************)
VARIABLES
    \* StreamingJSONParser fields
    max_buffer_size, buffer, brace_count, in_string, escape_next,
    \* position and locals of a running feed call
    feed_pc, i, start_pos, objects,
    \* upstream text: the stream chosen for the run and what is left of it
    stream, pending,
    \* observation of the parser: number of feed calls, every object returned
    \* so far, characters dropped from the front of the buffer, number of
    \* overruns, and the number of overruns that happened while only
    \* never-closing input had been delivered
    feeds, emitted, consumed, overruns, garbage_overruns,
    \* EnhancedPacketCapture fields
    capture_process, analysis_thread, packet_queue, running, statistics,
    \* analysis thread (_analyze_packets): position, objects still to be
    \* processed by the for loop, the packet and the packet_data of the
    \* running _process_packet call
    an_pc, an_objects, packet, packet_data,
    \* thread that calls start_capture and stop_capture: position
    main_pc,
    \* thread that calls get_metrics: position and the dict being built
    rd_pc, metrics,
    \* wall clock (time.time()), in milliseconds
    now,
    \* upstream capture process: records it may emit, how many it still
    \* emits, frame number, capture time and RTP sequence number last emitted;
    \* clock advances and start_capture calls still to come
    menu, frames_left, up_frame, up_time, up_seq, ticks_left, starts_left,
    \* observation of the session: number of successful puts by
    \* _process_packet, the events handed to its enqueue step, whether a
    \* consumer has taken an event, the statistics at the boundaries of
    \* _process_packet calls, the last two snapshots returned and how many
    \* snapshots were taken since statistics or the clock last changed
    enqueues, handed, dequeued, committed, last_metrics, prev_metrics,
    calm_calls, rd_clean,
    \* statistics and number of puts at the entry of the running (or last)
    \* _process_packet call
    pp_entry,
    \* every jitter sample accepted so far, in arrival order
    accepted

parserVars == <<max_buffer_size, buffer, brace_count, in_string, escape_next,
                feed_pc, i, start_pos, objects, stream, pending,
                feeds, emitted, consumed, overruns, garbage_overruns>>

sessionVars == <<capture_process, analysis_thread, packet_queue, running,
                 statistics, an_pc, an_objects, packet, packet_data, main_pc,
                 rd_pc, metrics, now, menu, frames_left, up_frame, up_time,
                 up_seq, ticks_left, starts_left, enqueues, handed, dequeued, committed, last_metrics,
                 prev_metrics, calm_calls, rd_clean, pp_entry, accepted>>

vars == <<parserVars, sessionVars>>

(***************************************************************************)
(* Upstream text of the parser runs.                                       *)
(***************************************************************************)
\* {}
RecEmpty == <<P(LB), P(RB)>>
\* {"a":{}}
RecNested == <<P(LB), S(<<LA>>), P(CL), P(LB), P(RB), P(RB)>>
\* {"{":"}"}
RecBraces == <<P(LB), S(<<LB>>), P(CL), S(<<RB>>), P(RB)>>
\* {"\"":"\\"}
RecEscapes == <<P(LB), S(<<QT>>), P(CL), S(<<BS>>), P(RB)>>

Records == {RecEmpty, RecNested, RecBraces, RecEscapes}

SeqsUpTo(set, n) == UNION {[1..m -> set] : m \in 0..n}

\* characters of the tail of a never-closing input
GarbageChars == {LB, QT, BS, LA}
GarbageTailLen == 2

\* never-closing inputs one character longer than the small buffer:
\* an opening brace, padding, and an arbitrary tail without closing brace
Garbages ==
    {<<LB>> \o [n \in 1..(MaxBufSmall - GarbageTailLen) |-> LA] \o t :
        t \in [1..GarbageTailLen -> GarbageChars]}

Streams ==
    {[garbage |-> <<>>, origin |-> o] : o \in SeqsUpTo(Records, MaxRecords) \ {<<>>}}
    \cup {[garbage |-> g, origin |-> o] : g \in Garbages, o \in SeqsUpTo(Records, 1)}

DumpsAll(vals) == Flatten([n \in 1..Len(vals) |-> Dumps(vals[n])])
MaskAll(vals) == Flatten([n \in 1..Len(vals) |-> MaskOf(vals[n])])

StreamText(st) == st.garbage \o DumpsAll(st.origin)
StreamMask(st) == [n \in 1..Len(st.garbage) |-> FALSE] \o MaskAll(st.origin)

Delivered == Len(StreamText(stream)) - Len(pending)

(***************************************************************************)
(* StreamingJSONParser                                                     *)
(***************************************************************************)
ParserInit(sizes) ==
    /\ max_buffer_size \in sizes
    /\ buffer = <<>>
    /\ brace_count = 0
    /\ in_string = FALSE
    /\ escape_next = FALSE
    /\ feed_pc = "idle"
    /\ i = 0
    /\ start_pos = 0
    /\ objects = <<>>
    /\ feeds = 0
    /\ emitted = <<>>
    /\ consumed = 0
    /\ overruns = 0
    /\ garbage_overruns = 0

\* the slice taken with the sign lost: buffer[max_buffer_size//2:] drops the
\* leading half and keeps everything after it
TrailingHalfFromFront(buf, max) ==
    SubSeq(buf, (max \div 2) + 1, Len(buf))

\* buffer[-max_buffer_size//2:] : Python evaluates (-max_buffer_size)//2, the
\* floor of -max/2, so the slice keeps the last ceil(max/2) characters
TrailingHalf(buf, max) ==
    LET keep == (max + 1) \div 2 IN
    IF keep = 0 \/ Len(buf) <= keep THEN buf
    ELSE SubSeq(buf, Len(buf) - keep + 1, Len(buf))

\* the test that also takes a buffer of exactly max characters
OverrunInclusive(buf, max) == Len(buf) >= max

\* line 160
Overrun(buf, max) == Len(buf) > max

\* feed, lines 156-168: append the chunk, truncate and reset on overrun,
\* start the scan at i = 0
FeedCall(data) ==
    /\ feed_pc = "idle"
    /\ LET appended == buffer \o data IN
       IF Overrun(appended, max_buffer_size)
       THEN /\ buffer' = TrailingHalf(appended, max_buffer_size)
            /\ brace_count' = 0
            /\ in_string' = FALSE
            /\ escape_next' = FALSE
            /\ overruns' = overruns + 1
            /\ consumed' = consumed + (Len(appended) - Len(buffer'))
            /\ garbage_overruns' =
                   IF Delivered + Len(data) <= Len(stream.garbage)
                   THEN garbage_overruns + 1 ELSE garbage_overruns
       ELSE /\ buffer' = appended
            /\ UNCHANGED <<brace_count, in_string, escape_next, overruns,
                           consumed, garbage_overruns>>
    /\ objects' = <<>>
    /\ i' = 0
    /\ start_pos' = 0
    /\ feed_pc' = "scan"
    /\ feeds' = feeds + 1
    /\ UNCHANGED <<max_buffer_size, emitted>>

\* the loop iteration without the in_string test: braces are counted inside
\* strings as well
ScanCharCountingInStrings(st) ==
    LET char == st.buffer[st.i + 1] IN
    IF st.escape_next THEN
        [st EXCEPT !.escape_next = FALSE, !.i = @ + 1]
    ELSE IF char = BS THEN
        [st EXCEPT !.escape_next = TRUE, !.i = @ + 1]
    ELSE IF char = QT /\ ~st.escape_next THEN
        [st EXCEPT !.in_string = ~@, !.i = @ + 1]
    ELSE IF char = LB THEN
        [st EXCEPT !.start_pos = IF st.brace_count = 0 THEN st.i ELSE @,
                   !.brace_count = @ + 1,
                   !.i = @ + 1]
    ELSE IF char = RB THEN
        IF st.brace_count - 1 = 0 THEN
            LET json_str == SubSeq(st.buffer, st.start_pos + 1, st.i + 1)
                obj == JsonLoads(json_str)
            IN [st EXCEPT !.brace_count = 0,
                          !.objects = IF obj.ok THEN Append(@, obj.val) ELSE @,
                          !.buffer = SubSeq(@, st.i + 2, Len(@)),
                          !.i = 0]
        ELSE [st EXCEPT !.brace_count = @ - 1, !.i = @ + 1]
    ELSE [st EXCEPT !.i = @ + 1]

\* One iteration of the while loop, lines 170-199, on the scanner state
\* st = [buffer, brace_count, in_string, escape_next, i, start_pos, objects]
ScanChar(st) ==
    LET char == st.buffer[st.i + 1] IN
    IF st.escape_next THEN
        [st EXCEPT !.escape_next = FALSE, !.i = @ + 1]
    ELSE IF char = BS THEN
        [st EXCEPT !.escape_next = TRUE, !.i = @ + 1]
    ELSE IF char = QT /\ ~st.escape_next THEN
        [st EXCEPT !.in_string = ~@, !.i = @ + 1]
    ELSE IF ~st.in_string THEN
        IF char = LB THEN
            [st EXCEPT !.start_pos = IF st.brace_count = 0 THEN st.i ELSE @,
                       !.brace_count = @ + 1,
                       !.i = @ + 1]
        ELSE IF char = RB THEN
            IF st.brace_count - 1 = 0 THEN
                LET json_str == SubSeq(st.buffer, st.start_pos + 1, st.i + 1)
                    obj == JsonLoads(json_str)
                IN [st EXCEPT !.brace_count = 0,
                              !.objects = IF obj.ok THEN Append(@, obj.val) ELSE @,
                              !.buffer = SubSeq(@, st.i + 2, Len(@)),
                              !.i = 0]
            ELSE [st EXCEPT !.brace_count = @ - 1, !.i = @ + 1]
        ELSE [st EXCEPT !.i = @ + 1]
    ELSE [st EXCEPT !.i = @ + 1]

ScanState ==
    [buffer |-> buffer, brace_count |-> brace_count, in_string |-> in_string,
     escape_next |-> escape_next, i |-> i, start_pos |-> start_pos,
     objects |-> objects]

\* while i < len(self.buffer): one character
FeedScan ==
    /\ feed_pc = "scan"
    /\ i < Len(buffer)
    /\ LET st == ScanChar(ScanState) IN
        /\ buffer' = st.buffer
        /\ brace_count' = st.brace_count
        /\ in_string' = st.in_string
        /\ escape_next' = st.escape_next
        /\ i' = st.i
        /\ start_pos' = st.start_pos
        /\ objects' = st.objects
        /\ consumed' = consumed + (Len(buffer) - Len(st.buffer))
    /\ UNCHANGED <<max_buffer_size, feed_pc, feeds, emitted, overruns,
                   garbage_overruns>>

\* return objects, line 201
FeedReturn ==
    /\ feed_pc = "scan"
    /\ i >= Len(buffer)
    /\ feed_pc' = "idle"
    /\ emitted' = emitted \o objects
    /\ UNCHANGED <<max_buffer_size, buffer, brace_count, in_string, escape_next,
                   i, start_pos, objects, feeds, consumed, overruns,
                   garbage_overruns>>

(***************************************************************************)
(* The parser fed with the chunks of a stream.  The split of the stream    *)
(* into chunks is arbitrary; the last permitted call delivers the rest.    *)
(***************************************************************************)
DeliverChunk ==
    /\ feeds < MaxFeeds
    /\ pending # <<>>
    /\ \E n \in 1..Len(pending) :
        /\ feeds + 1 = MaxFeeds => n = Len(pending)
        /\ FeedCall(SubSeq(pending, 1, n))
        /\ pending' = SubSeq(pending, n + 1, Len(pending))
    /\ UNCHANGED <<stream, sessionVars>>

ScanStep == FeedScan /\ UNCHANGED <<stream, pending, sessionVars>>

ReturnObjects == FeedReturn /\ UNCHANGED <<stream, pending, sessionVars>>

NextFeed == DeliverChunk \/ ScanStep \/ ReturnObjects

(***************************************************************************)
(* EnhancedPacketCapture: constants and pure helpers.                      *)
(* Capture timestamps and the wall clock are integers in milliseconds, so  *)
(* (timestamp - last.timestamp) * 1000 of the source is a difference here. *)
(* A derived metric is the fraction [n, d] of the division that computes   *)
(* it.                                                                     *)
(***************************************************************************)
\* capacity of packet_queue in the model (queue.Queue(maxsize=10000))
QueueMaxSize == 2
\* records returned by one feed call in the session model
MaxObjects == 2
\* records emitted by the upstream process in the queue and snapshot runs
MaxFrames == 3
\* records emitted by the upstream process in the runs with full windows
WindowFrames == 11
\* capture sessions in the queue runs
MaxSessions == 2
\* clock advances in the runs with full windows
MaxTicks == 1
\* length of one clock advance, in milliseconds
TickLen == 4000

video_ports == {554, 8000, 8080, 1935}
rtp_payload_types == {96, 97, 98, 99, 26}
RtpPortLow == 16384
RtpPortHigh == 32767
MaxFrameLen == 65535
MaxSeqNum == 65535
MaxPayloadType == 127
SeqWrap == 32768
SeqModulus == 65536
JitterMaxDiff == 1000
JitterCap == 1000
JitterKeep == 500
JitterWindow == 100
DelayWindow == 10
LossMinSamples == 10
BitrateCutoff == 30000
BitrateWindow == 10000

\* None as start_time
NoTime == -1

Frac(n, d) == [n |-> n, d |-> d]
Zero == Frac(0, 1)

Min(a, b) == IF a <= b THEN a ELSE b

LastN(seq, n) == IF Len(seq) <= n THEN seq ELSE SubSeq(seq, Len(seq) - n + 1, Len(seq))

\* sum() of a list of integers, summed by halves
RECURSIVE SumRange(_, _, _)
SumRange(seq, lo, hi) ==
    IF lo > hi THEN 0
    ELSE IF lo = hi THEN seq[lo]
    ELSE LET mid == (lo + hi) \div 2
         IN SumRange(seq, lo, mid) + SumRange(seq, mid + 1, hi)

SumSeq(seq) == SumRange(seq, 1, Len(seq))

\* the list left in arrival order
Unsorted(seq) == seq

\* list.sort() on integers
Sort(seq) == SortSeq(seq, LAMBDA a, b : a < b)

\* the statistics dict of __init__, lines 215-225
StatisticsInit ==
    [total_packets |-> 0, video_packets |-> 0, rtp_packets |-> 0,
     lost_packets |-> 0, jitter_samples |-> <<>>, delay_samples |-> <<>>,
     bitrate_samples |-> <<>>, start_time |-> NoTime, errors |-> 0]

\* the test with the limits of the RTP port range excluded
IsVideoPacketExclusive(src_port, dst_port) ==
    \/ src_port \in video_ports
    \/ dst_port \in video_ports
    \/ (RtpPortLow < src_port /\ src_port < RtpPortHigh)
    \/ (RtpPortLow < dst_port /\ dst_port < RtpPortHigh)

\* _is_video_packet, lines 543-551
IsVideoPacket(src_port, dst_port) ==
    \/ src_port \in video_ports
    \/ dst_port \in video_ports
    \/ (RtpPortLow <= src_port /\ src_port <= RtpPortHigh)
    \/ (RtpPortLow <= dst_port /\ dst_port <= RtpPortHigh)

\* the cut that keeps the oldest JitterKeep samples instead of the newest
TrimJitterOldest(appended) ==
    IF Len(appended) > JitterCap THEN SubSeq(appended, 1, JitterKeep)
    ELSE appended

\* lines 597-598: a list longer than JitterCap is cut to its last JitterKeep
\* samples
TrimJitter(appended) ==
    IF Len(appended) > JitterCap THEN LastN(appended, JitterKeep)
    ELSE appended

\* a rejection that moves the last stored sample to the rejected timestamp
RejectSampleAdvancing(samples, timestamp) ==
    [samples EXCEPT ![Len(samples)].timestamp = timestamp]

\* lines 587-598: the test of the time difference has no else branch, a
\* rejected sample leaves the list as it is
RejectSample(samples, timestamp) == samples

\* the update with the upper limit of the time difference included
CalculateJitterInclusive(samples, timestamp, seq_num) ==
    IF Len(samples) > 0 THEN
        LET last_sample == samples[Len(samples)]
            time_diff == timestamp - last_sample.timestamp
        IN IF 0 < time_diff /\ time_diff <= JitterMaxDiff THEN
               TrimJitter(Append(samples, [timestamp |-> timestamp,
                                           jitter |-> time_diff,
                                           seq_num |-> seq_num]))
           ELSE RejectSample(samples, timestamp)
    ELSE <<[timestamp |-> timestamp, jitter |-> 0, seq_num |-> seq_num]>>

\* _calculate_jitter, lines 579-608: the new jitter_samples
CalculateJitter(samples, timestamp, seq_num) ==
    IF Len(samples) > 0 THEN
        LET last_sample == samples[Len(samples)]
            time_diff == timestamp - last_sample.timestamp
        IN IF 0 < time_diff /\ time_diff < JitterMaxDiff THEN
               TrimJitter(Append(samples, [timestamp |-> timestamp,
                                           jitter |-> time_diff,
                                           seq_num |-> seq_num]))
           ELSE RejectSample(samples, timestamp)
    ELSE <<[timestamp |-> timestamp, jitter |-> 0, seq_num |-> seq_num]>>

\* _calculate_bitrate, lines 610-631: the new bitrate_samples
CalculateBitrate(samples, timestamp, length, current_time) ==
    LET appended == Append(samples, [timestamp |-> timestamp, bytes |-> length,
                                     real_time |-> current_time])
        cutoff_time == current_time - BitrateCutoff
    IN SelectSeq(appended, LAMBDA smp : smp.real_time >= cutoff_time)

\* the mean taken over every stored sample
CalculateJitterMetricAll(st) ==
    IF Len(st.jitter_samples) < 2 THEN Zero
    ELSE LET jitter_values == [n \in 1..Len(st.jitter_samples) |->
                                  st.jitter_samples[n].jitter]
         IN Frac(SumSeq(jitter_values), Len(jitter_values))

\* _calculate_jitter_metric, lines 660-669
CalculateJitterMetric(st) ==
    IF Len(st.jitter_samples) < 2 THEN Zero
    ELSE LET window == LastN(st.jitter_samples, JitterWindow)
             jitter_values == [n \in 1..Len(window) |-> window[n].jitter]
         IN Frac(SumSeq(jitter_values), Len(jitter_values))

\* _calculate_delay_metric, lines 671-685
CalculateDelayMetric(st) ==
    IF st.jitter_samples = <<>> THEN Zero
    ELSE LET recent_samples == LastN(st.jitter_samples, DelayWindow) IN
         IF Len(recent_samples) >= 2 THEN
             LET time_diff == recent_samples[Len(recent_samples)].timestamp
                              - recent_samples[1].timestamp
             IN IF time_diff > 0 THEN Frac(time_diff, Len(recent_samples)) ELSE Zero
         ELSE Zero

\* _calculate_latency_metric, lines 687-694: (jitter + delay) / 2
CalculateLatencyMetric(st) ==
    LET jitter == CalculateJitterMetric(st)
        delay == CalculateDelayMetric(st)
    IN Frac(jitter.n * delay.d + delay.n * jitter.d, 2 * jitter.d * delay.d)

\* the metric computed from the bytes instead of the bits
CalculateBitrateMetricBytes(st, current_time) ==
    IF Len(st.bitrate_samples) < 2 THEN Zero
    ELSE LET recent_samples ==
                 SelectSeq(st.bitrate_samples,
                           LAMBDA smp : current_time - smp.real_time <= BitrateWindow)
         IN IF Len(recent_samples) >= 2 THEN
                LET total_bytes == SumSeq([n \in 1..Len(recent_samples) |->
                                               recent_samples[n].bytes])
                    time_span == recent_samples[Len(recent_samples)].real_time
                                 - recent_samples[1].real_time
                IN IF time_span > 0 THEN Frac(total_bytes, time_span * 1000)
                   ELSE Zero
            ELSE Zero

\* the stored samples that the eviction cutoff of the update would keep
RecentSamplesByCutoff(samples, current_time) ==
    SelectSeq(samples, LAMBDA smp : current_time - smp.real_time <= BitrateCutoff)

\* recent_samples, lines 706-709: the samples of wall-clock age <= 10 s
RecentSamples(samples, current_time) ==
    SelectSeq(samples, LAMBDA smp : current_time - smp.real_time <= BitrateWindow)

\* _calculate_bitrate_metric, lines 696-719, in Mbps:
\* (total_bytes * 8) / (time_span / 1000) / 1_000_000 with time_span in ms
CalculateBitrateMetric(st, current_time) ==
    IF Len(st.bitrate_samples) < 2 THEN Zero
    ELSE LET recent_samples == RecentSamples(st.bitrate_samples, current_time)
         IN IF Len(recent_samples) >= 2 THEN
                LET total_bytes == SumSeq([n \in 1..Len(recent_samples) |->
                                               recent_samples[n].bytes])
                    time_span == recent_samples[Len(recent_samples)].real_time
                                 - recent_samples[1].real_time
                IN IF time_span > 0 THEN Frac(total_bytes * 8, time_span * 1000)
                   ELSE Zero
            ELSE Zero

\* lines 738-741: the difference of the sorted sequence numbers at (0-based)
\* index n - 1, with its wraparound case
SeqDiff(seq_numbers, n) ==
    LET raw == seq_numbers[n] - seq_numbers[n - 1]
    IN IF raw > SeqWrap THEN SeqModulus - seq_numbers[n - 1] + seq_numbers[n]
       ELSE raw

\* the loop of lines 735-745 over the sorted sequence numbers: gaps sums
\* diff - 1 over the differences above 1, total_expected sums the differences
LossWalk(seq_numbers) ==
    LET diffs == [n \in 1..(Len(seq_numbers) - 1) |-> SeqDiff(seq_numbers, n + 1)]
    IN [gaps |-> SumSeq([n \in 1..Len(diffs) |->
                             IF diffs[n] > 1 THEN diffs[n] - 1 ELSE 0]),
        total_expected |-> SumSeq(diffs)]

\* the computation that divides by total_expected without testing it
CalculatePacketLossMetricUnguarded(st) ==
    IF Len(st.jitter_samples) < LossMinSamples THEN [value |-> Zero, statistics |-> st]
    ELSE LET window == LastN(st.jitter_samples, JitterWindow)
             seq_numbers == Sort([n \in 1..Len(window) |-> window[n].seq_num])
         IN IF Len(seq_numbers) < 2 THEN [value |-> Zero, statistics |-> st]
            ELSE LET w == LossWalk(seq_numbers) IN
                 [value |-> IF w.gaps * 100 <= 100 * w.total_expected
                            THEN Frac(w.gaps * 100, w.total_expected)
                            ELSE Frac(100, 1),
                  statistics |-> [st EXCEPT !.lost_packets = w.gaps]]

\* _calculate_packet_loss_metric, lines 721-754: the value returned and the
\* statistics it leaves (lost_packets is assigned when total_expected > 0)
CalculatePacketLossMetric(st) ==
    IF Len(st.jitter_samples) < LossMinSamples THEN [value |-> Zero, statistics |-> st]
    ELSE LET window == LastN(st.jitter_samples, JitterWindow)
             seq_numbers == Sort([n \in 1..Len(window) |-> window[n].seq_num])
         IN IF Len(seq_numbers) < 2 THEN [value |-> Zero, statistics |-> st]
            ELSE LET w == LossWalk(seq_numbers) IN
                 IF w.total_expected > 0 THEN
                     [value |-> IF w.gaps * 100 <= 100 * w.total_expected
                                THEN Frac(w.gaps * 100, w.total_expected)
                                ELSE Frac(100, 1),
                      statistics |-> [st EXCEPT !.lost_packets = w.gaps]]
                 ELSE [value |-> Zero, statistics |-> st]

(***************************************************************************)
(* packet_queue: queue.Queue(maxsize=...) with put_nowait and get_nowait.  *)
(***************************************************************************)
QueueFull(q) == Len(q) >= QueueMaxSize

\* the queue after get_nowait takes the newest element instead of the oldest
QueueAfterGetNewest(q) == SubSeq(q, 1, Len(q) - 1)

\* the queue after a successful get_nowait: the oldest element is taken
QueueAfterGet(q) == Tail(q)

(***************************************************************************)
(* Records of the upstream capture process, as the dicts json.loads        *)
(* returns for them.  The session model takes the objects returned by a    *)
(* feed call as given.                                                     *)
(***************************************************************************)
Template(layers, frame_ok, frame_len, src_port, dst_port, rtp, payload_type, seqstep) ==
    [layers |-> layers, frame_ok |-> frame_ok, frame_len |-> frame_len,
     src_port |-> src_port, dst_port |-> dst_port, rtp |-> rtp,
     payload_type |-> payload_type, seqstep |-> seqstep]

\* capture time between two records, in milliseconds
FrameGap == 50

\* no layers; unparsable frame fields; frame length 0; a DNS packet; an RTSP
\* packet without RTP layer; an RTP video packet; an RTP packet with a
\* payload type out of range
MixedMenu ==
    {Template(FALSE, TRUE, 100, 53, 53, FALSE, 0, 0),
     Template(TRUE, TRUE, 1000, 20000, 20002, TRUE, MaxPayloadType + 1, 1),
     Template(TRUE, FALSE, 100, 53, 53, FALSE, 0, 0),
     Template(TRUE, TRUE, 0, 53, 53, FALSE, 0, 0),
     Template(TRUE, TRUE, 100, 53, 53, FALSE, 0, 0),
     Template(TRUE, TRUE, 100, 554, 40000, FALSE, 0, 0),
     Template(TRUE, TRUE, 1000, 20000, 20002, TRUE, 96, 1)}

\* RTP video packets, consecutive or with one sequence number missing
RtpMenu ==
    {Template(TRUE, TRUE, 1000, 20000, 20002, TRUE, 96, 1),
     Template(TRUE, TRUE, 1000, 20000, 20002, TRUE, 96, 2)}

\* the template t with the rtp.seq field fixed to the value v
WithSeq(t, v) ==
    [f \in DOMAIN t \cup {"seq_fixed"} |-> IF f = "seq_fixed" THEN v ELSE t[f]]

\* media RTP packets: video payload types 96 and 26, the audio payload
\* type 0, a payload type out of range, and a sequence number out of range
PayloadMenu ==
    {Template(TRUE, TRUE, 1000, 20000, 20002, TRUE, 96, 1),
     Template(TRUE, TRUE, 1000, 20000, 20002, TRUE, 26, 1),
     Template(TRUE, TRUE, 1000, 20000, 20002, TRUE, 0, 1),
     Template(TRUE, TRUE, 1000, 20000, 20002, TRUE, MaxPayloadType + 1, 1),
     WithSeq(Template(TRUE, TRUE, 1000, 20000, 20002, TRUE, 96, 1),
             MaxSeqNum + 1)}

Menu(m) ==
    IF m = "mixed" THEN MixedMenu
    ELSE IF m = "payload" THEN PayloadMenu
    ELSE RtpMenu

\* the record made from template t after n records, the last at capture
\* time time and the last RTP packet with sequence number seq
GenPacket(t, n, time, seq) ==
    [layers |-> t.layers, frame_ok |-> t.frame_ok, frame_number |-> n + 1,
     frame_time |-> time + FrameGap, frame_len |-> t.frame_len,
     src_port |-> t.src_port, dst_port |-> t.dst_port, rtp |-> t.rtp,
     seq_num |-> IF ~t.rtp THEN 0
                 ELSE IF "seq_fixed" \in DOMAIN t THEN t.seq_fixed
                 ELSE (seq + t.seqstep) % SeqModulus,
     payload_type |-> t.payload_type]

NoPacket ==
    [layers |-> FALSE, frame_ok |-> FALSE, frame_number |-> 0, frame_time |-> 0,
     frame_len |-> 0, src_port |-> 0, dst_port |-> 0, rtp |-> FALSE,
     seq_num |-> 0, payload_type |-> 0]

NoPacketData ==
    [frame_number |-> 0, timestamp |-> 0, length |-> 0, src_port |-> 0,
     dst_port |-> 0, is_video |-> FALSE, rtp_info |-> FALSE]

(***************************************************************************)
(* EnhancedPacketCapture: state after __init__, lines 208-246.             *)
(***************************************************************************)
BlankMetrics ==
    [total_packets |-> 0, video_packets |-> 0, rtp_packets |-> 0,
     lost_packets |-> 0, jitter |-> Zero, delay |-> Zero, latency |-> Zero,
     bitrate |-> Zero, packet_loss |-> Zero, errors |-> 0]

\* statistics without the two fields that get_metrics and start_capture
\* assign
Proj(st) ==
    [st EXCEPT !.lost_packets = 0, !.start_time = NoTime]

CaptureInit ==
    /\ capture_process = "none"
    /\ analysis_thread = FALSE
    /\ packet_queue = <<>>
    /\ running = FALSE
    /\ statistics = StatisticsInit
    /\ an_pc = "none"
    /\ an_objects = <<>>
    /\ packet = NoPacket
    /\ packet_data = NoPacketData
    /\ main_pc = "idle"
    /\ rd_pc = "idle"
    /\ metrics = BlankMetrics
    /\ now = 0
    /\ up_frame = 0
    /\ up_time = 0
    /\ up_seq = 0
    /\ enqueues = 0
    /\ handed = <<>>
    /\ dequeued = FALSE
    /\ committed = {Proj(StatisticsInit)}
    /\ last_metrics = BlankMetrics
    /\ prev_metrics = BlankMetrics
    /\ calm_calls = 0
    /\ rd_clean = FALSE
    /\ pp_entry = [statistics |-> StatisticsInit, enqueues |-> 0]
    /\ accepted = <<>>

calmVars == <<calm_calls, rd_clean, last_metrics, prev_metrics>>
upVars == <<menu, frames_left, up_frame, up_time, up_seq>>

\* statistics or the clock change: snapshots taken before and after are not
\* expected to agree
Disturb ==
    /\ calm_calls' = 0
    /\ rd_clean' = FALSE
    /\ last_metrics' = BlankMetrics
    /\ prev_metrics' = BlankMetrics

(***************************************************************************)
(* The analysis thread: _analyze_packets, lines 395-445, and the           *)
(* _process_packet call of its for loop, lines 467-541.  Each step is one  *)
(* access to shared state (statistics, packet_queue, running,              *)
(* capture_process).  _update_performance_stats only writes                *)
(* performance_stats and is left out.                                      *)
(***************************************************************************)
InProcessPacket(pc) ==
    pc \in {"pp_total", "pp_video", "pp_rtp", "pp_analyze", "pp_bitrate",
            "pp_build", "pp_put", "pp_get", "pp_put2"}

\* a step of the analysis thread to position pc with the given statistics
\* and queue; a return from _process_packet drops its locals
AnalysisStep(pc, st, q) ==
    /\ an_pc' = pc
    /\ statistics' = st
    /\ packet_queue' = q
    /\ committed' = IF InProcessPacket(an_pc) /\ ~InProcessPacket(pc)
                    THEN committed \cup {Proj(st)} ELSE committed
    /\ pp_entry' = IF ~InProcessPacket(an_pc) /\ InProcessPacket(pc)
                   THEN [statistics |-> statistics, enqueues |-> enqueues]
                   ELSE pp_entry
    /\ accepted' = IF st.jitter_samples # statistics.jitter_samples
                   THEN Append(accepted, st.jitter_samples[Len(st.jitter_samples)])
                   ELSE accepted
    /\ IF InProcessPacket(an_pc) \/ InProcessPacket(pc) \/ st # statistics
       THEN Disturb ELSE UNCHANGED calmVars
    /\ UNCHANGED <<parserVars, capture_process, analysis_thread, running,
                   main_pc, rd_pc, metrics, now, menu, ticks_left,
                   starts_left, dequeued>>

WithErrors(st) == [st EXCEPT !.errors = @ + 1]

\* a loop test that looks at the process only
LoopConditionIgnoringFlag == capture_process # "none"

\* self.running and self.capture_process, the loop test of line 403
LoopCondition == running /\ capture_process # "none"

\* while self.running and self.capture_process, line 403
AnWhile ==
    /\ an_pc = "while"
    /\ AnalysisStep(IF LoopCondition THEN "poll" ELSE "stopped",
                    statistics, packet_queue)
    /\ UNCHANGED <<an_objects, packet, packet_data, frames_left, up_frame,
                   up_time, up_seq, enqueues, handed>>

\* self.capture_process.poll(), lines 406-408; on None the AttributeError is
\* caught at line 440
AnPoll ==
    /\ an_pc = "poll"
    /\ IF capture_process = "none"
       THEN AnalysisStep("while", WithErrors(statistics), packet_queue)
       ELSE IF capture_process = "exited"
       THEN AnalysisStep("stopped", statistics, packet_queue)
       ELSE AnalysisStep("readline", statistics, packet_queue)
    /\ UNCHANGED <<an_objects, packet, packet_data, frames_left, up_frame,
                   up_time, up_seq, enqueues, handed>>

RECURSIVE GenObjects(_, _, _, _)
GenObjects(ts, n, time, seq) ==
    IF ts = <<>> THEN <<>>
    ELSE LET pkt == GenPacket(Head(ts), n, time, seq) IN
         <<pkt>> \o GenObjects(Tail(ts), n + 1, pkt.frame_time,
                               IF pkt.rtp THEN pkt.seq_num ELSE seq)

RECURSIVE LastSeq(_, _)
LastSeq(pkts, seq) ==
    IF pkts = <<>> THEN seq
    ELSE LastSeq(Tail(pkts), IF Head(pkts).rtp THEN Head(pkts).seq_num ELSE seq)

\* the runs with full windows leave out at most one sequence number
SeqLimit == WindowFrames + 1

\* readline and feed, lines 411-418.  stdout was set to non-blocking mode
\* by start_capture (lines 289-292), so readline returns at once: a line
\* (that may complete no record) when there is output, the empty string
\* when there is none or at end of file.  With capture_process already None
\* the attribute access raises AttributeError, caught at line 440.
AnReadline ==
    /\ an_pc = "readline"
    /\ IF capture_process = "none"
       THEN /\ AnalysisStep("while", WithErrors(statistics), packet_queue)
            /\ UNCHANGED <<an_objects, frames_left, up_frame, up_time, up_seq>>
       ELSE \E ts \in SeqsUpTo(Menu(menu), Min(MaxObjects, frames_left)) :
                 LET objs == GenObjects(ts, up_frame, up_time, up_seq) IN
                 /\ menu = "rtp" => LastSeq(objs, up_seq) <= SeqLimit
                 /\ an_objects' = objs
                 /\ frames_left' = frames_left - Len(ts)
                 /\ up_frame' = up_frame + Len(ts)
                 /\ up_time' = up_time + FrameGap * Len(ts)
                 /\ up_seq' = LastSeq(objs, up_seq)
                 /\ AnalysisStep(IF ts = <<>> THEN "while" ELSE "for",
                                 statistics, packet_queue)
    /\ UNCHANGED <<packet, packet_data, enqueues, handed>>

\* for packet in objects, line 420
AnFor ==
    /\ an_pc = "for"
    /\ IF an_objects = <<>>
       THEN /\ AnalysisStep("while", statistics, packet_queue)
            /\ UNCHANGED <<an_objects, packet>>
       ELSE /\ AnalysisStep("pp_total", statistics, packet_queue)
            /\ packet' = Head(an_objects)
            /\ an_objects' = Tail(an_objects)
    /\ UNCHANGED <<packet_data, frames_left, up_frame, up_time, up_seq,
                   enqueues, handed>>

\* a valid record: layers present, frame fields parsed, frame length in range
ValidRecord(pkt) ==
    /\ pkt.layers
    /\ pkt.frame_ok
    /\ ~(pkt.frame_len <= 0 \/ pkt.frame_len > MaxFrameLen)

ppFrame == <<an_objects, frames_left, up_frame, up_time, up_seq>>

\* lines 470-504: validation, then total_packets += 1
PpTotal ==
    /\ an_pc = "pp_total"
    /\ IF ValidRecord(packet)
       THEN /\ AnalysisStep("pp_video",
                            [statistics EXCEPT !.total_packets = @ + 1],
                            packet_queue)
            /\ UNCHANGED packet
       ELSE /\ AnalysisStep("for", statistics, packet_queue)
            /\ packet' = NoPacket
    /\ UNCHANGED <<ppFrame, packet_data, enqueues, handed>>

\* the video test without its count
PpVideoUncounted ==
    /\ an_pc = "pp_video"
    /\ IF IsVideoPacket(packet.src_port, packet.dst_port)
       THEN AnalysisStep("pp_rtp", statistics, packet_queue)
       ELSE AnalysisStep("pp_build", statistics, packet_queue)
    /\ UNCHANGED <<ppFrame, packet, packet_data, enqueues, handed>>

\* lines 507-508
PpVideo ==
    /\ an_pc = "pp_video"
    /\ IF IsVideoPacket(packet.src_port, packet.dst_port)
       THEN AnalysisStep("pp_rtp", [statistics EXCEPT !.video_packets = @ + 1],
                         packet_queue)
       ELSE AnalysisStep("pp_build", statistics, packet_queue)
    /\ UNCHANGED <<ppFrame, packet, packet_data, enqueues, handed>>

\* lines 511-513
PpRtp ==
    /\ an_pc = "pp_rtp"
    /\ IF packet.rtp
       THEN AnalysisStep("pp_analyze", [statistics EXCEPT !.rtp_packets = @ + 1],
                         packet_queue)
       ELSE AnalysisStep("pp_build", statistics, packet_queue)
    /\ UNCHANGED <<ppFrame, packet, packet_data, enqueues, handed>>

\* _analyze_rtp_packet, lines 553-570, up to the jitter update
PpAnalyze ==
    /\ an_pc = "pp_analyze"
    /\ IF ~(0 <= packet.seq_num /\ packet.seq_num <= MaxSeqNum)
          \/ ~(0 <= packet.payload_type /\ packet.payload_type <= MaxPayloadType)
          \/ packet.payload_type \notin rtp_payload_types
       THEN AnalysisStep("pp_build", statistics, packet_queue)
       ELSE AnalysisStep("pp_bitrate",
                [statistics EXCEPT !.jitter_samples =
                     CalculateJitter(@, packet.frame_time, packet.seq_num)],
                packet_queue)
    /\ UNCHANGED <<ppFrame, packet, packet_data, enqueues, handed>>

\* _analyze_rtp_packet, line 573: the bitrate update
PpBitrate ==
    /\ an_pc = "pp_bitrate"
    /\ AnalysisStep("pp_build",
            [statistics EXCEPT !.bitrate_samples =
                 CalculateBitrate(@, packet.frame_time, packet.frame_len, now)],
            packet_queue)
    /\ UNCHANGED <<ppFrame, packet, packet_data, enqueues, handed>>

\* lines 517-527: rtp_info is bound only in the video branch (line 511), so
\* for any other record line 526 raises NameError, caught at line 539
PpBuild ==
    /\ an_pc = "pp_build"
    /\ IF IsVideoPacket(packet.src_port, packet.dst_port)
       THEN /\ AnalysisStep("pp_put", statistics, packet_queue)
            /\ packet_data' =
                   [frame_number |-> packet.frame_number,
                    timestamp |-> packet.frame_time,
                    length |-> packet.frame_len,
                    src_port |-> packet.src_port,
                    dst_port |-> packet.dst_port,
                    is_video |-> IsVideoPacket(packet.src_port, packet.dst_port),
                    rtp_info |-> packet.rtp]
            /\ handed' = Append(handed, packet_data')
            /\ UNCHANGED packet
       ELSE /\ AnalysisStep("for", WithErrors(statistics), packet_queue)
            /\ packet' = NoPacket
            /\ UNCHANGED <<packet_data, handed>>
    /\ UNCHANGED <<ppFrame, enqueues>>

\* put_nowait, lines 529-531
PpPut ==
    /\ an_pc = "pp_put"
    /\ IF ~QueueFull(packet_queue)
       THEN /\ AnalysisStep("for", statistics, Append(packet_queue, packet_data))
            /\ enqueues' = enqueues + 1
            /\ packet' = NoPacket
            /\ packet_data' = NoPacketData
       ELSE /\ AnalysisStep("pp_get", statistics, packet_queue)
            /\ UNCHANGED <<enqueues, packet, packet_data>>
    /\ UNCHANGED <<ppFrame, handed>>

\* get_nowait, lines 533-537; queue.Empty is passed over
PpGet ==
    /\ an_pc = "pp_get"
    /\ IF packet_queue # <<>>
       THEN /\ AnalysisStep("pp_put2", statistics, QueueAfterGet(packet_queue))
            /\ UNCHANGED <<packet, packet_data>>
       ELSE /\ AnalysisStep("for", statistics, packet_queue)
            /\ packet' = NoPacket
            /\ packet_data' = NoPacketData
    /\ UNCHANGED <<ppFrame, enqueues, handed>>

\* the second put_nowait, line 535; queue.Full would reach line 539
PpPut2 ==
    /\ an_pc = "pp_put2"
    /\ IF ~QueueFull(packet_queue)
       THEN /\ AnalysisStep("for", statistics, Append(packet_queue, packet_data))
            /\ enqueues' = enqueues + 1
       ELSE /\ AnalysisStep("for", WithErrors(statistics), packet_queue)
            /\ UNCHANGED enqueues
    /\ packet' = NoPacket
    /\ packet_data' = NoPacketData
    /\ UNCHANGED <<ppFrame, handed>>

AnalysisThread ==
    \/ AnWhile \/ AnPoll \/ AnReadline \/ AnFor
    \/ PpTotal \/ PpVideo \/ PpRtp \/ PpAnalyze \/ PpBitrate \/ PpBuild
    \/ PpPut \/ PpGet \/ PpPut2

(***************************************************************************)
(* The thread that starts and stops the capture.  It starts a capture      *)
(* only when none is running and the previous analysis thread has ended.   *)
(***************************************************************************)
analysisLocals == <<an_objects, packet, packet_data>>
observedQueue == <<enqueues, handed, dequeued, pp_entry, accepted>>

CanStart ==
    /\ main_pc = "idle"
    /\ ~running
    /\ an_pc \in {"none", "stopped"}

\* start_capture, lines 266-302, returning True
StartCapture ==
    /\ CanStart
    /\ starts_left > 0
    /\ starts_left' = starts_left - 1
    /\ capture_process' = "alive"
    /\ running' = TRUE
    /\ statistics' = [statistics EXCEPT !.start_time = now]
    /\ analysis_thread' = TRUE
    /\ an_pc' = "while"
    /\ Disturb
    /\ committed' = committed \cup {Proj(statistics')}
    /\ UNCHANGED <<parserVars, packet_queue, analysisLocals, main_pc, rd_pc,
                   metrics, now, upVars, ticks_left, observedQueue>>

mainFrame == <<parserVars, packet_queue, statistics, an_pc, analysisLocals,
               rd_pc, metrics, now, upVars, ticks_left, starts_left,
               observedQueue, committed, calmVars>>

\* stop_capture, line 367
StopFlag ==
    /\ main_pc = "idle"
    /\ running
    /\ running' = FALSE
    /\ main_pc' = "stop_terminate"
    /\ UNCHANGED <<mainFrame, capture_process, analysis_thread>>

\* stop_capture, lines 370-381: terminate, wait, capture_process = None
StopTerminate ==
    /\ main_pc = "stop_terminate"
    /\ capture_process' = "none"
    /\ main_pc' = "stop_join"
    /\ UNCHANGED <<mainFrame, running, analysis_thread>>

\* stop_capture, lines 384-388: join returns when the thread has ended or
\* after the timeout; analysis_thread = None
StopJoin ==
    /\ main_pc = "stop_join"
    /\ analysis_thread' = FALSE
    /\ main_pc' = "idle"
    /\ UNCHANGED <<mainFrame, running, capture_process>>

\* the upstream process exits on its own
ProcessExit ==
    /\ capture_process = "alive"
    /\ capture_process' = "exited"
    /\ UNCHANGED <<mainFrame, running, analysis_thread, main_pc>>

\* a downstream consumer takes the oldest event: packet_queue.get_nowait()
Consume ==
    /\ packet_queue # <<>>
    /\ packet_queue' = QueueAfterGet(packet_queue)
    /\ dequeued' = TRUE
    /\ UNCHANGED <<parserVars, capture_process, analysis_thread, running,
                   statistics, an_pc, analysisLocals, main_pc, rd_pc, metrics,
                   now, upVars, ticks_left, starts_left, enqueues, handed,
                   pp_entry, accepted, committed, calmVars>>

\* the wall clock advances
Tick ==
    /\ ticks_left > 0
    /\ ticks_left' = ticks_left - 1
    /\ now' = now + TickLen
    /\ Disturb
    /\ UNCHANGED <<parserVars, capture_process, analysis_thread, packet_queue,
                   running, statistics, an_pc, analysisLocals, main_pc, rd_pc,
                   metrics, upVars, starts_left, observedQueue,
                   committed>>

(***************************************************************************)
(* get_metrics, lines 633-658.  The dict display evaluates its entries in  *)
(* order; the position is the key whose value is evaluated next.  The      *)
(* timestamp and performance entries are left out.                         *)
(***************************************************************************)
\* one entry of the dict: the next position, the dict and the statistics
MetricsEntry(pc, m, st, current_time) ==
    CASE pc = "total_packets" ->
            [pc |-> "video_packets", statistics |-> st,
             metrics |-> [m EXCEPT !.total_packets = st.total_packets]]
      [] pc = "video_packets" ->
            [pc |-> "rtp_packets", statistics |-> st,
             metrics |-> [m EXCEPT !.video_packets = st.video_packets]]
      [] pc = "rtp_packets" ->
            [pc |-> "lost_packets", statistics |-> st,
             metrics |-> [m EXCEPT !.rtp_packets = st.rtp_packets]]
      [] pc = "lost_packets" ->
            [pc |-> "jitter", statistics |-> st,
             metrics |-> [m EXCEPT !.lost_packets = st.lost_packets]]
      [] pc = "jitter" ->
            [pc |-> "delay", statistics |-> st,
             metrics |-> [m EXCEPT !.jitter = CalculateJitterMetric(st)]]
      [] pc = "delay" ->
            [pc |-> "latency", statistics |-> st,
             metrics |-> [m EXCEPT !.delay = CalculateDelayMetric(st)]]
      [] pc = "latency" ->
            [pc |-> "bitrate", statistics |-> st,
             metrics |-> [m EXCEPT !.latency = CalculateLatencyMetric(st)]]
      [] pc = "bitrate" ->
            [pc |-> "packet_loss", statistics |-> st,
             metrics |-> [m EXCEPT !.bitrate = CalculateBitrateMetric(st, current_time)]]
      [] pc = "packet_loss" ->
            LET r == CalculatePacketLossMetric(st) IN
            [pc |-> "errors", statistics |-> r.statistics,
             metrics |-> [m EXCEPT !.packet_loss = r.value]]
      [] pc = "errors" ->
            [pc |-> "return", statistics |-> st,
             metrics |-> [m EXCEPT !.errors = st.errors]]

\* all entries from position pc on
RECURSIVE MetricsFrom(_, _, _, _)
MetricsFrom(pc, m, st, current_time) ==
    IF pc = "return" THEN [pc |-> pc, statistics |-> st, metrics |-> m]
    ELSE LET r == MetricsEntry(pc, m, st, current_time) IN
         MetricsFrom(r.pc, r.metrics, r.statistics, current_time)

readerFrame == <<parserVars, capture_process, analysis_thread, packet_queue,
                 running, an_pc, analysisLocals, main_pc, now, upVars,
                 ticks_left, starts_left, observedQueue, committed>>

\* the reader thread enters get_metrics
GetMetricsCall ==
    /\ rd_pc = "idle"
    /\ rd_pc' = "total_packets"
    /\ metrics' = BlankMetrics
    /\ rd_clean' = TRUE
    /\ UNCHANGED <<readerFrame, statistics, calm_calls, last_metrics, prev_metrics>>

\* the reader thread evaluates one entry
GetMetricsEntry ==
    /\ rd_pc \notin {"idle", "return"}
    /\ LET r == MetricsEntry(rd_pc, metrics, statistics, now) IN
        /\ rd_pc' = r.pc
        /\ metrics' = r.metrics
        /\ statistics' = r.statistics
    /\ UNCHANGED <<readerFrame, calmVars>>

\* the snapshots returned since statistics and the clock last changed
Returned(m) ==
    /\ IF rd_clean
       THEN /\ calm_calls' = Min(calm_calls + 1, 2)
            /\ prev_metrics' = last_metrics
            /\ last_metrics' = m
       ELSE /\ calm_calls' = 0
            /\ prev_metrics' = BlankMetrics
            /\ last_metrics' = BlankMetrics
    /\ rd_clean' = FALSE

\* return metrics, line 651
GetMetricsReturn ==
    /\ rd_pc = "return"
    /\ rd_pc' = "idle"
    /\ Returned(metrics)
    /\ metrics' = BlankMetrics
    /\ UNCHANGED <<readerFrame, statistics>>

\* a whole get_metrics call that no other thread interleaves with
GetMetrics ==
    /\ rd_pc = "idle"
    /\ LET r == MetricsFrom("total_packets", BlankMetrics, statistics, now) IN
        /\ statistics' = r.statistics
        /\ calm_calls' = Min(calm_calls + 1, 2)
        /\ prev_metrics' = last_metrics
        /\ last_metrics' = r.metrics
    /\ UNCHANGED <<readerFrame, rd_pc, metrics, rd_clean>>

(***************************************************************************)
(* Specifications.                                                         *)
(***************************************************************************)
NoStream == [garbage |-> <<>>, origin |-> <<>>]

\* the record extractor alone, fed with the chunks of a stream
InitFeed ==
    /\ ParserInit({MaxBufSmall, MaxBufLarge})
    /\ stream \in Streams
    /\ pending = StreamText(stream)
    /\ CaptureInit
    /\ menu = "mixed"
    /\ frames_left = 0
    /\ ticks_left = 0
    /\ starts_left = 0

SpecFeed == InitFeed /\ [][NextFeed]_vars

InitCapture(m, frames, ticks, starts) ==
    /\ ParserInit({MaxBufLarge})
    /\ stream = NoStream
    /\ pending = <<>>
    /\ CaptureInit
    /\ menu = m
    /\ frames_left = frames
    /\ ticks_left = ticks
    /\ starts_left = starts

\* capture sessions with a downstream consumer of the queue
InitQueue == InitCapture("mixed", MaxFrames, 0, MaxSessions)

NextQueue ==
    \/ StartCapture
    \/ StopFlag \/ StopTerminate \/ StopJoin
    \/ ProcessExit
    \/ AnalysisThread
    \/ Consume

SpecQueue == InitQueue /\ [][NextQueue]_vars

\* a capture session on media RTP packets of several payload types, with a
\* downstream consumer of the queue
InitPayload == InitCapture("payload", MaxFrames, 0, 1)

SpecPayload == InitPayload /\ [][NextQueue]_vars

\* a capture session with a concurrent reader of snapshots
InitSnap == InitCapture("mixed", MaxFrames, 0, 1)

NextSnap ==
    \/ StartCapture
    \/ AnalysisThread
    \/ GetMetricsCall \/ GetMetricsEntry \/ GetMetricsReturn

SpecSnap == InitSnap /\ [][NextSnap]_vars

\* a capture session of RTP video that fills the metric windows, with
\* snapshots taken between the steps of the analysis thread
InitWindow == InitCapture("rtp", WindowFrames, MaxTicks, 1)

NextWindow ==
    \/ StartCapture
    \/ AnalysisThread
    \/ GetMetrics
    \/ Tick

SpecWindow == InitWindow /\ [][NextWindow]_vars

\* capture sessions in which the analysis thread keeps running whenever it
\* can take a step
InitShutdown == InitCapture("rtp", MaxFrames, 0, MaxSessions)

SpecShutdown == InitShutdown /\ [][NextQueue]_vars /\ WF_vars(AnalysisThread)

(***************************************************************************)
(* Properties of the record extractor.                                     *)
(***************************************************************************)
\* the whole stream has been delivered and the last feed call has returned
AllDelivered == feed_pc = "idle" /\ pending = <<>> /\ feeds > 0

\* positions (1-based, in the stream text) of the closing braces that end
\* the records of a stream
RecordEnds(st) ==
    {Len(st.garbage) + Len(DumpsAll(SubSeq(st.origin, 1, n))) : n \in 1..Len(st.origin)}

\* C1: N well-formed records, concatenated (total size below max_buffer_size)
\* and split into chunks in any way, are emitted by the successive feed calls
\* as exactly the N original objects in their original order.
C1_ChunkedFeedEmitsAll ==
    (/\ AllDelivered
     /\ stream.garbage = <<>>
     /\ Len(StreamText(stream)) < max_buffer_size)
    => emitted = stream.origin

\* C8: whenever feed returns, the retained buffer is at most max_buffer_size
\* long, whatever the chunks were.
C8_BufferBounded == feed_pc = "idle" => Len(buffer) <= max_buffer_size

\* a feed call that overran the buffer has returned
C8_Witness == feed_pc = "idle" /\ overruns > 0 /\ buffer # <<>>

\* C9: after never-closing input of more than max_buffer_size characters has
\* been fed (so that a truncate-and-reset has happened), every well-formed
\* record fed afterwards is emitted exactly once.  Only runs without a later
\* overrun are considered: the record itself fits the buffer.
C9_RecoveryAfterOverrun ==
    (/\ AllDelivered
     /\ garbage_overruns > 0
     /\ overruns = garbage_overruns
     /\ stream.origin # <<>>)
    => emitted = stream.origin

\* the scan step about to be taken reads stream position consumed + i + 1
\* of a stream of well-formed records delivered whole in one chunk to a
\* parser in its initial state
WholeChunkScan ==
    /\ feeds = 1
    /\ stream.garbage = <<>>
    /\ pending = <<>>
    /\ feed_pc = "scan"
    /\ i < Len(buffer)

ScansInsideString ==
    /\ StreamMask(stream)[consumed + i + 1]
    /\ buffer[i + 1] \in {LB, RB, QT}

StringCharIgnored ==
    /\ ScansInsideString => (brace_count' = brace_count /\ buffer' = buffer
                             /\ objects' = objects)
    /\ buffer' # buffer => (consumed + i + 1) \in RecordEnds(stream)

InEnqueueStep == an_pc \in {"pp_put", "pp_get", "pp_put2"}

\* C2: every valid record handed to _process_packet is counted in
\* total_packets and then handed to the queue exactly once, media or not, so
\* between _process_packet calls the number of enqueue operations performed
\* equals total_packets.
C2_EveryValidRecordEnqueued ==
    ~InProcessPacket(an_pc) => enqueues = statistics.total_packets

\* C3: as long as nothing has been dequeued, after the enqueue step has been
\* performed for the events e1..en the queue holds the last
\* min(n, capacity) of them in enqueue order, and the enqueue step can always
\* proceed.
C3_DropOldest ==
    /\ (~dequeued /\ ~InEnqueueStep) => packet_queue = LastN(handed, QueueMaxSize)
    /\ InEnqueueStep => ENABLED (PpPut \/ PpGet \/ PpPut2)

\* more events than the capacity have been enqueued without any dequeue
C3_Witness ==
    /\ ~dequeued
    /\ an_pc = "for"
    /\ Len(handed) > QueueMaxSize
    /\ Len(packet_queue) = QueueMaxSize

\* C4: under every interleaving with a consumer, each enqueue step ends with
\* the new event in the queue, and the producer removes an element only
\* when the queue is at capacity at that moment.
C4_AtomicDropOldest ==
    [][/\ (InEnqueueStep /\ an_pc' = "for")
            => \E n \in 1..Len(packet_queue') : packet_queue'[n] = packet_data
       /\ (an_pc = "pp_get" /\ packet_queue' # packet_queue)
            => QueueFull(packet_queue)]_vars

\* the snapshot m is the one an uninterrupted get_metrics returns for the
\* statistics c
SnapshotOf(m, c) ==
    /\ m.total_packets = c.total_packets
    /\ m.video_packets = c.video_packets
    /\ m.rtp_packets = c.rtp_packets
    /\ m.errors = c.errors
    /\ m.jitter = CalculateJitterMetric(c)
    /\ m.delay = CalculateDelayMetric(c)
    /\ m.latency = CalculateLatencyMetric(c)
    /\ m.bitrate = CalculateBitrateMetric(c, now)
    /\ m.packet_loss = CalculatePacketLossMetric(c).value

\* C5: the counters and derived metrics returned by one get_metrics call all
\* belong to the statistics as they were after some whole number of
\* completed _process_packet calls.
C5_NoTornSnapshot ==
    rd_pc = "return" => \E c \in committed : SnapshotOf(metrics, c)

\* C6: two consecutive get_metrics calls with no _process_packet step and no
\* clock advance in between return the same counters and derived metrics.
C6_SnapshotIdempotent == calm_calls = 2 => last_metrics = prev_metrics

\* C7: a successful start_capture after a stop_capture leaves statistics in
\* its creation state apart from the new start_time.
C7_SessionReset ==
    [][(~running /\ running' /\ an_pc = "stopped")
           => statistics' = [StatisticsInit EXCEPT !.start_time = now]]_vars

(***************************************************************************)
(* The record extractor fed with a malformed record between two            *)
(* well-formed ones.                                                       *)
(***************************************************************************)
\* {a}
MalBareWord == <<P(LB), P(LA), P(RB)>>
\* {"a"}
MalNoValue == <<P(LB), S(<<LA>>), P(RB)>>
\* {:}
MalColon == <<P(LB), P(CL), P(RB)>>
\* {\}
MalBackslash == <<P(LB), P(BS), P(RB)>>

\* texts with one opening and one closing brace, none of them inside a
\* string, that json.loads rejects
MalformedRecords == {MalBareWord, MalNoValue, MalColon, MalBackslash}

\* a malformed record between two well-formed ones, in a text that fits the
\* buffer
MalformedStreams ==
    {st \in {[garbage |-> <<>>, origin |-> <<a, m, b>>] :
                 a \in Records, m \in MalformedRecords, b \in Records} :
        Len(StreamText(st)) <= MaxBufLarge}

InitMalformed ==
    /\ ParserInit({MaxBufLarge})
    /\ stream \in MalformedStreams
    /\ pending = StreamText(stream)
    /\ CaptureInit
    /\ menu = "mixed"
    /\ frames_left = 0
    /\ ticks_left = 0
    /\ starts_left = 0

SpecMalformed == InitMalformed /\ [][NextFeed]_vars

\* the whole text was delivered by a single feed call, which has returned
FedWhole == AllDelivered /\ feeds = 1

\* C11: with one brace-balanced but unparsable record between two
\* well-formed records in the text fed to a fresh parser, feed returns
\* exactly the two well-formed records, in order.
C11_MalformedBetweenDropped ==
    FedWhole => emitted = <<stream.origin[1], stream.origin[3]>>

(***************************************************************************)
(* Direct calls of the metric updates: _calculate_jitter with arbitrary    *)
(* arguments, as _analyze_rtp_packet calls it for the RTP packets of a     *)
(* stream, with snapshots in between.                                      *)
(***************************************************************************)
\* single _calculate_jitter calls per run
MaxJitterCalls == 2

\* timestamp of a call minus the timestamp of the call before, in
\* milliseconds: backwards, equal, and around the acceptance limit
JitterDeltas ==
    {0 - FrameGap, 0, 1, JitterMaxDiff - 1, JitterMaxDiff, JitterMaxDiff + 1}

\* sequence number of a call minus that of the call before: a repeated
\* number, the next one, one number missing
SeqSteps == {0, 1, 2}

\* sequence number before the first packet of a stream
SeqBases == {LossMinSamples - 1, SeqModulus - LossMinSamples}

\* lengths of an undisturbed stream before the single calls
WarmupLens == {2, LossMinSamples - 1, JitterCap - 1, JitterCap}

\* the streams before the single calls, as length, sequence number before
\* the first packet and sequence number step: consecutively numbered
\* packets, or LossMinSamples packets that all carry the same number
Warmups ==
    {<<n, base, 1>> : n \in WarmupLens, base \in SeqBases}
    \cup {<<LossMinSamples, base, 0>> : base \in SeqBases}

\* variables that a direct call of a metric update leaves alone
callFrame == <<parserVars, capture_process, analysis_thread, packet_queue,
               running, an_pc, analysisLocals, main_pc, rd_pc, metrics, menu,
               ticks_left, starts_left, enqueues, handed, dequeued, pp_entry>>

\* jitter_samples after the calls for the first n packets of a stream that
\* are FrameGap apart and numbered from base + step in steps of step: every
\* call is accepted, the first with jitter 0
WarmupSamples(n, base, step) ==
    [k \in 1..n |-> [timestamp |-> k * FrameGap,
                     jitter |-> IF k = 1 THEN 0 ELSE FrameGap,
                     seq_num |-> (base + k * step) % SeqModulus]]

\* the first packets of a stream: n packets FrameGap apart, all accepted
JitterWarmupFrom(warmups) ==
    /\ an_pc = "none"
    /\ up_frame = 0
    /\ \E w \in warmups :
        LET n == w[1]
            base == w[2]
            step == w[3]
        IN /\ statistics' = [statistics EXCEPT !.jitter_samples =
                                 WarmupSamples(n, base, step)]
           /\ accepted' = statistics'.jitter_samples
           /\ up_frame' = n
           /\ up_time' = n * FrameGap
           /\ up_seq' = (base + n * step) % SeqModulus
    /\ Disturb
    /\ committed' = committed \cup {Proj(statistics')}
    /\ UNCHANGED <<callFrame, now, frames_left>>

JitterWarmup == JitterWarmupFrom(Warmups)

\* self._calculate_jitter(timestamp, seq_num), line 570
JitterCall ==
    /\ an_pc = "none"
    /\ frames_left > 0
    /\ \E d \in JitterDeltas, step \in SeqSteps :
        LET timestamp == up_time + d
            seq_num == (up_seq + step) % SeqModulus
        IN /\ statistics' = [statistics EXCEPT !.jitter_samples =
                                 CalculateJitter(@, timestamp, seq_num)]
           /\ up_time' = timestamp
           /\ up_seq' = seq_num
    /\ accepted' = IF statistics'.jitter_samples # statistics.jitter_samples
                   THEN Append(accepted, statistics'.jitter_samples[
                                             Len(statistics'.jitter_samples)])
                   ELSE accepted
    /\ up_frame' = up_frame + 1
    /\ frames_left' = frames_left - 1
    /\ Disturb
    /\ committed' = committed \cup {Proj(statistics')}
    /\ UNCHANGED <<callFrame, now>>

(***************************************************************************)
(* Direct calls of _calculate_bitrate while the wall clock advances.       *)
(***************************************************************************)
\* _calculate_bitrate calls per run
MaxBitrateCalls == 3
\* clock advances per run
MaxAdvances == 3

\* lengths of a clock advance, in milliseconds: within the metric window,
\* at its limit, just beyond it, and beyond the eviction cutoff
AdvanceLens == {4000, BitrateWindow, BitrateWindow + 1, BitrateCutoff + 1}

\* frame lengths of the packets
FrameLens == {1000, 1500}

\* self._calculate_bitrate(timestamp, length), line 573
BitrateCall ==
    /\ an_pc = "none"
    /\ frames_left > 0
    /\ \E length \in FrameLens :
        statistics' = [statistics EXCEPT !.bitrate_samples =
                           CalculateBitrate(@, up_time + FrameGap, length, now)]
    /\ up_time' = up_time + FrameGap
    /\ up_frame' = up_frame + 1
    /\ frames_left' = frames_left - 1
    /\ Disturb
    /\ committed' = committed \cup {Proj(statistics')}
    /\ UNCHANGED <<callFrame, now, up_seq, accepted>>

\* the wall clock advances by one of the lengths
Advance ==
    /\ ticks_left > 0
    /\ ticks_left' = ticks_left - 1
    /\ \E d \in AdvanceLens : now' = now + d
    /\ Disturb
    /\ UNCHANGED <<parserVars, capture_process, analysis_thread, packet_queue,
                   running, statistics, an_pc, analysisLocals, main_pc, rd_pc,
                   metrics, upVars, starts_left, observedQueue, committed>>

InitBitrate == InitCapture("rtp", MaxBitrateCalls, MaxAdvances, 0)

NextBitrate ==
    \/ BitrateCall
    \/ Advance
    \/ GetMetrics

SpecBitrate == InitBitrate /\ [][NextBitrate]_vars

InitJitter == InitCapture("rtp", MaxJitterCalls, 0, 0)

NextJitter ==
    \/ JitterWarmup
    \/ JitterCall
    \/ GetMetrics

SpecJitter == InitJitter /\ [][NextJitter]_vars

(***************************************************************************)
(* The analysis thread reading the text of the upstream process: each line *)
(* read is fed to the record extractor and the objects returned are        *)
(* processed, lines 411-426.  The key of a record stands for the fields of *)
(* its layers: "v" for those of an RTP video packet, "z" for those of a    *)
(* packet with frame length 0; any other record has no layers.             *)
(***************************************************************************)
LV == "v"
LZ == "z"

\* {"v":{}}
RecMedia == <<P(LB), S(<<LV>>), P(CL), P(LB), P(RB), P(RB)>>
\* {"z":{}}
RecBadLen == <<P(LB), S(<<LZ>>), P(CL), P(LB), P(RB), P(RB)>>

\* the fields _process_packet extracts from the object val
TemplateOf(val) ==
    IF val = RecMedia THEN Template(TRUE, TRUE, 1000, 20000, 20002, TRUE, 96, 1)
    ELSE IF val = RecBadLen THEN Template(TRUE, TRUE, 0, 20000, 20002, TRUE, 96, 1)
    ELSE Template(FALSE, TRUE, 100, 53, 53, FALSE, 0, 0)

\* max_buffer_size of the parser whose overruns are explored in a session:
\* a media record fits next to the half retained after an overrun
MaxBufSession == 16

\* never-closing inputs one character longer than that buffer
SessionGarbages ==
    {<<LB>> \o [n \in 1..(MaxBufSession - GarbageTailLen) |-> LA] \o t :
        t \in [1..GarbageTailLen -> GarbageChars]}

\* the text of the upstream process: a media record after an unparsable
\* record, after a record with frame length 0 or after a never-closing
\* input, and three media records
SessionStreams ==
    {[garbage |-> Dumps(m), origin |-> <<RecMedia>>] : m \in MalformedRecords}
    \cup {[garbage |-> <<>>, origin |-> <<RecBadLen, RecMedia>>]}
    \cup {[garbage |-> g, origin |-> <<RecMedia>>] : g \in SessionGarbages}
    \cup {[garbage |-> <<>>, origin |-> <<RecMedia, RecMedia, RecMedia>>]}

\* the variables of the session that the steps between readline and the
\* for loop leave alone
feedFrame == <<capture_process, analysis_thread, packet_queue, running,
               statistics, packet, packet_data, main_pc, rd_pc, metrics, now,
               menu, frames_left, ticks_left, starts_left, observedQueue,
               committed, calmVars>>

\* lines 411-416 and 427-428: readline returns what the process has
\* written, which is passed to feed, or the empty string when it has
\* written nothing more, and the loop goes on after a short sleep
ReadlineFeed ==
    /\ an_pc = "readline"
    /\ capture_process = "alive"
    /\ IF pending = <<>>
       THEN /\ an_pc' = "while"
            /\ UNCHANGED <<parserVars, pending>>
       ELSE /\ feeds < MaxFeeds
            /\ \E n \in 1..Len(pending) :
                /\ feeds + 1 = MaxFeeds => n = Len(pending)
                /\ FeedCall(SubSeq(pending, 1, n))
                /\ pending' = SubSeq(pending, n + 1, Len(pending))
            /\ an_pc' = "feed"
            /\ UNCHANGED stream
    /\ UNCHANGED <<feedFrame, an_objects, up_frame, up_time, up_seq>>

\* the scan loop of the feed call
FeedScanStep == an_pc = "feed" /\ ScanStep

\* lines 416-420: feed returns its objects to the for loop
FeedReturnObjects ==
    /\ an_pc = "feed"
    /\ FeedReturn
    /\ LET ts == [n \in 1..Len(objects) |-> TemplateOf(objects[n])]
           objs == GenObjects(ts, up_frame, up_time, up_seq)
       IN /\ an_objects' = objs
          /\ up_frame' = up_frame + Len(ts)
          /\ up_time' = up_time + FrameGap * Len(ts)
          /\ up_seq' = LastSeq(objs, up_seq)
    /\ an_pc' = "for"
    /\ UNCHANGED <<stream, pending, feedFrame>>

InitSession ==
    /\ ParserInit({MaxBufSession})
    /\ stream \in SessionStreams
    /\ pending = StreamText(stream)
    /\ CaptureInit
    /\ menu = "mixed"
    /\ frames_left = 0
    /\ ticks_left = 0
    /\ starts_left = 1

NextSession ==
    \/ StartCapture
    \/ AnWhile \/ AnPoll \/ ReadlineFeed \/ FeedScanStep \/ FeedReturnObjects
    \/ AnFor
    \/ PpTotal \/ PpVideo \/ PpRtp \/ PpAnalyze \/ PpBitrate \/ PpBuild
    \/ PpPut \/ PpGet \/ PpPut2

SpecSession == InitSession /\ [][NextSession]_vars

(***************************************************************************)
(* Snapshots of short sample lists: a short stream of RTP packets, then    *)
(* direct calls of _calculate_bitrate while the wall clock advances.       *)
(***************************************************************************)
\* the short streams: one packet, two packets, LossMinSamples packets
\* numbered consecutively and LossMinSamples packets with the same number
ShortWarmups ==
    {<<1, 0, 1>>, <<2, 0, 1>>, <<LossMinSamples, 0, 1>>, <<LossMinSamples, 0, 0>>}

JitterWarmupShort == JitterWarmupFrom(ShortWarmups)

InitDegenerate == InitCapture("rtp", MaxJitterCalls, MaxTicks, 0)

NextDegenerate ==
    \/ JitterWarmupShort
    \/ BitrateCall
    \/ Advance
    \/ GetMetrics

SpecDegenerate == InitDegenerate /\ [][NextDegenerate]_vars

(***************************************************************************)
(* Direct calls of _is_video_packet.  The ports of the call are kept in    *)
(* packet and the value returned in packet_data.is_video.                  *)
(***************************************************************************)
\* ports of the calls: the limits of the port numbers, each well-known media
\* port and the limits of the RTP range, with their neighbours
CallPorts ==
    {0, 65535}
    \cup UNION {{p - 1, p, p + 1} : p \in video_ports \cup {RtpPortLow, RtpPortHigh}}

\* self._is_video_packet(src_port, dst_port), lines 543-551: the function
\* assigns nothing
IsVideoPacketCall ==
    /\ an_pc = "none"
    /\ \E src_port \in CallPorts, dst_port \in CallPorts :
        /\ packet' = [NoPacket EXCEPT !.src_port = src_port, !.dst_port = dst_port]
        /\ packet_data' = [NoPacketData EXCEPT
                               !.src_port = src_port,
                               !.dst_port = dst_port,
                               !.is_video = IsVideoPacket(src_port, dst_port)]
    /\ UNCHANGED <<parserVars, capture_process, analysis_thread, packet_queue,
                   running, statistics, an_pc, an_objects, main_pc, rd_pc,
                   metrics, now, upVars, ticks_left, starts_left,
                   observedQueue, committed, calmVars>>

InitPorts == InitCapture("mixed", 0, 0, 0)

SpecPorts == InitPorts /\ [][IsVideoPacketCall]_vars

(***************************************************************************)
(* Direct calls of the legacy PacketCapture._is_video_packet of            *)
(* packet_capture.py, with the same ports and the same place for the value *)
(* returned.                                                               *)
(***************************************************************************)
\* self.video_ports of PacketCapture, packet_capture.py line 50
LegacyVideoPorts == {554, 8000, 8080, 1935}

\* the lower limit of the RTP ports, packet_capture.py lines 224-225
LegacyRtpPortLow == 16384

\* PacketCapture._is_video_packet, packet_capture.py lines 220-225
LegacyIsVideoPacket(src_port, dst_port) ==
    \/ src_port \in LegacyVideoPorts
    \/ dst_port \in LegacyVideoPorts
    \/ src_port >= LegacyRtpPortLow
    \/ dst_port >= LegacyRtpPortLow

\* a call of the legacy function: it assigns nothing
LegacyIsVideoPacketCall ==
    /\ an_pc = "none"
    /\ \E src_port \in CallPorts, dst_port \in CallPorts :
        /\ packet' = [NoPacket EXCEPT !.src_port = src_port, !.dst_port = dst_port]
        /\ packet_data' = [NoPacketData EXCEPT
                               !.src_port = src_port,
                               !.dst_port = dst_port,
                               !.is_video = LegacyIsVideoPacket(src_port, dst_port)]
    /\ UNCHANGED <<parserVars, capture_process, analysis_thread, packet_queue,
                   running, statistics, an_pc, an_objects, main_pc, rd_pc,
                   metrics, now, upVars, ticks_left, starts_left,
                   observedQueue, committed, calmVars>>

SpecLegacyPorts == InitPorts /\ [][LegacyIsVideoPacketCall]_vars

(***************************************************************************)
(* Direct calls of WiresharkAnalyzer._analyze_single_stream of             *)
(* wireshark_integration.py, the offline analyzer.  stream_data['packets'] *)
(* is kept in an_objects, as the call leaves it, and the dict returned in  *)
(* metrics.  Times are in milliseconds and the numbers returned are        *)
(* fractions.                                                              *)
(***************************************************************************)
\* packets of a stream
MaxStreamLen == 3

\* sequence numbers of the packets of a stream
StreamSeqs == {0, 1, 2, 5, MaxSeqNum}

\* frame.len of the packets of a stream
StreamFrameLen == 1000

\* the packets appended at lines 223-228 for the sequence numbers seqs, in
\* order of arrival
StreamPackets(seqs) ==
    [k \in 1..Len(seqs) |->
        [seq |-> seqs[k], time |-> k * FrameGap, length |-> StreamFrameLen]]

\* pkt put into the sorted list after the elements with a key <= its own
InsertBySeq(sorted, pkt) ==
    LET before == SelectSeq(sorted, LAMBDA q : q.seq <= pkt.seq)
        after == SelectSeq(sorted, LAMBDA q : q.seq > pkt.seq)
    IN before \o <<pkt>> \o after

\* packets.sort(key=lambda x: x['seq']), line 251: a stable sort
RECURSIVE SortBySeq(_)
SortBySeq(packets) ==
    IF packets = <<>> THEN <<>>
    ELSE InsertBySeq(SortBySeq(SubSeq(packets, 1, Len(packets) - 1)),
                     packets[Len(packets)])

\* _analyze_single_stream, lines 243-285, for the sorted packets: the dict
\* returned, {} for fewer than 2 packets
AnalyzeSingleStream(packets, total_bytes) ==
    IF Len(packets) < 2 THEN <<>>
    ELSE LET jitter_samples == [n \in 1..(Len(packets) - 1) |->
                                    packets[n + 1].time - packets[n].time]
             avg_jitter == Frac(SumSeq(jitter_samples), Len(jitter_samples))
             expected_packets == packets[Len(packets)].seq - packets[1].seq + 1
             received_packets == Len(packets)
             packet_loss ==
                 IF expected_packets > 0
                 THEN Frac((expected_packets - received_packets) * 100,
                           expected_packets)
                 ELSE Zero
             duration == packets[Len(packets)].time - packets[1].time
             bitrate == IF duration > 0 THEN Frac(total_bytes * 8, duration * 1000)
                        ELSE Zero
         IN [jitter_ms |-> avg_jitter,
             packet_loss_percent |-> packet_loss,
             bitrate_mbps |-> bitrate,
             delay_ms |-> Frac(avg_jitter.n, avg_jitter.d * 2),
             total_packets |-> received_packets,
             expected_packets |-> expected_packets,
             duration_seconds |-> Frac(duration, 1000)]

\* self._analyze_single_stream(stream_data), line 235
AnalyzeSingleStreamCall ==
    /\ an_pc = "none"
    /\ \E seqs \in SeqsUpTo(StreamSeqs, MaxStreamLen) \ {<<>>} :
        LET packets == SortBySeq(StreamPackets(seqs)) IN
        /\ an_objects' = packets
        /\ metrics' = AnalyzeSingleStream(packets, StreamFrameLen * Len(seqs))
    /\ UNCHANGED <<parserVars, capture_process, analysis_thread, packet_queue,
                   running, statistics, an_pc, packet, packet_data, main_pc,
                   rd_pc, now, upVars, ticks_left, starts_left,
                   observedQueue, committed, calmVars>>

SpecOffline == InitPorts /\ [][AnalyzeSingleStreamCall]_vars

(***************************************************************************)
(* Properties of error handling and of the metric computations.            *)
(***************************************************************************)
\* a record with a field outside its valid range: the frame length, or the
\* sequence number or payload type of its RTP layer
MalformedField(pkt) ==
    /\ pkt.layers
    /\ pkt.frame_ok
    /\ \/ pkt.frame_len <= 0 \/ pkt.frame_len > MaxFrameLen
       \/ /\ pkt.rtp
          /\ \/ ~(0 <= pkt.seq_num /\ pkt.seq_num <= MaxSeqNum)
             \/ ~(0 <= pkt.payload_type /\ pkt.payload_type <= MaxPayloadType)

\* the step that returns from _process_packet
ProcessPacketReturns == InProcessPacket(an_pc) /\ ~InProcessPacket(an_pc')

\* C12: a record discarded for a field outside its valid range increments
\* errors by exactly one and changes nothing else: it is not counted in
\* total_packets or rtp_packets and is not enqueued.
C12_DiscardCountsOneError ==
    [][(ProcessPacketReturns /\ MalformedField(packet))
           => /\ statistics' = WithErrors(pp_entry.statistics)
              /\ enqueues' = pp_entry.enqueues]_vars

\* the step is a single _calculate_jitter call
IsJitterCall == an_pc = "none" /\ frames_left' = frames_left - 1

\* the sample of the call just made, with the given jitter value
CallSample(jitter) ==
    [timestamp |-> up_time', jitter |-> jitter, seq_num |-> up_seq']

\* the list after appending x, cut to its last 500 entries when it is longer
\* than 1000
Appended(samples, x) ==
    IF Len(samples) + 1 > 1000 THEN LastN(Append(samples, x), 500)
    ELSE Append(samples, x)

\* C13: with no prior sample the sample {t, 0, s} is inserted; otherwise,
\* with delta_ms taken against the last stored sample, the sample
\* {t, delta_ms, s} is appended if and only if 0 < delta_ms < 1000, and a
\* rejected sample leaves jitter_samples unchanged.
C13_JitterUpdateRule ==
    [][IsJitterCall =>
          LET samples == statistics.jitter_samples IN
          IF samples = <<>>
          THEN statistics'.jitter_samples = <<CallSample(0)>>
          ELSE LET delta_ms == up_time' - samples[Len(samples)].timestamp IN
               IF 0 < delta_ms /\ delta_ms < 1000
               THEN statistics'.jitter_samples = Appended(samples, CallSample(delta_ms))
               ELSE statistics'.jitter_samples = samples]_vars

\* a call with delta exactly 1000 ms against the last stored sample has
\* been rejected
C13_Witness ==
    /\ up_frame > 0
    /\ statistics.jitter_samples # <<>>
    /\ up_time - statistics.jitter_samples[Len(statistics.jitter_samples)].timestamp
           = 1000
    /\ accepted # <<>>
    /\ accepted[Len(accepted)].timestamp # up_time

\* C14: jitter_samples never holds more than 1000 entries and always is a
\* contiguous suffix of the accepted samples in arrival order, whatever
\* updates and metric computations have run; an append that would make it
\* exceed 1000 leaves exactly the 500 most recently accepted samples.
C14_JitterListBounded ==
    /\ [](/\ Len(statistics.jitter_samples) <= 1000
          /\ statistics.jitter_samples =
                 LastN(accepted, Len(statistics.jitter_samples)))
    /\ [][(/\ IsJitterCall
           /\ Len(statistics.jitter_samples) + 1 > 1000
           /\ accepted' # accepted)
              => statistics'.jitter_samples = LastN(accepted', 500)]_vars

\* the list was cut to 500 entries by an append, and a snapshot has been
\* computed from it since
C14_Witness ==
    /\ Len(accepted) > 1000
    /\ Len(statistics.jitter_samples) = 500
    /\ calm_calls > 0

\* the step is a _calculate_bitrate call
IsBitrateCall ==
    /\ an_pc = "none"
    /\ frames_left' = frames_left - 1
    /\ statistics'.bitrate_samples # statistics.bitrate_samples

\* the age eviction of the claim: entries older than 10 seconds are dropped
EvictByAge(samples, current_time) ==
    SelectSeq(samples, LAMBDA smp : current_time - smp.real_time <= 10000)

\* C15: immediately after a bitrate update at wall-clock time now, every
\* retained sample satisfies now - real_time <= 10 seconds, and applying the
\* age eviction again at the same instant removes nothing.
C15_BitrateWindow ==
    [][IsBitrateCall =>
          /\ \A n \in 1..Len(statistics'.bitrate_samples) :
                 now' - statistics'.bitrate_samples[n].real_time <= 10000
          /\ EvictByAge(statistics'.bitrate_samples, now')
                 = statistics'.bitrate_samples]_vars

RECURSIVE Gcd(_, _)
Gcd(a, b) == IF b = 0 THEN a ELSE Gcd(b, a % b)

\* a fraction with non-negative numerator and positive denominator, in
\* lowest terms
Reduce(f) == LET g == Gcd(f.n, f.d) IN Frac(f.n \div g, f.d \div g)

\* two fractions denote the same number
FracEq(a, b) == Reduce(a) = Reduce(b)

\* the bitrate metric of the claim, in Mbps, from the samples with wall-clock
\* age <= 10 s at time current_time (times in milliseconds):
\* (sum of bytes * 8) / (span in seconds) / 1_000_000, or 0; the span in
\* seconds is the span in milliseconds / 1000, which leaves
\* bits / (span in milliseconds * 1000)
ClaimedBitrate(samples, current_time) ==
    LET recent == EvictByAge(samples, current_time) IN
    IF Len(recent) >= 2
       /\ recent[Len(recent)].real_time - recent[1].real_time > 0
    THEN Frac(SumSeq([n \in 1..Len(recent) |-> recent[n].bytes]) * 8,
              (recent[Len(recent)].real_time - recent[1].real_time) * 1000)
    ELSE Zero

\* the samples are two 1000-byte samples inserted 4 s apart, both within the
\* window
TwoSamplesFourSeconds ==
    /\ Len(statistics.bitrate_samples) = 2
    /\ statistics.bitrate_samples[1].bytes = 1000
    /\ statistics.bitrate_samples[2].bytes = 1000
    /\ statistics.bitrate_samples[2].real_time
           - statistics.bitrate_samples[1].real_time = 4000
    /\ now - statistics.bitrate_samples[1].real_time <= 10000

\* C18: the snapshot's bitrate is computed from the samples of wall-clock
\* age <= 10 s: with at least two of them and a positive span it is
\* (sum of bytes * 8) / span / 1_000_000, otherwise 0; two 1000-byte samples
\* inserted 4 s apart give 0.004 Mbps.
C18_BitrateMetric ==
    calm_calls > 0 =>
        /\ FracEq(last_metrics.bitrate,
                  ClaimedBitrate(statistics.bitrate_samples, now))
        /\ TwoSamplesFourSeconds => FracEq(last_metrics.bitrate, Frac(4, 1000))

\* a snapshot of two 1000-byte samples inserted 4 s apart
C18_Witness == calm_calls > 0 /\ TwoSamplesFourSeconds

\* the window of the packet-loss metric: the most recent 100 jitter samples
LossWindow == LastN(statistics.jitter_samples, 100)

\* the packet-loss metric of the claim for a window: the sequence numbers
\* are sorted, total_expected is the sum of the adjacent differences, gaps
\* the sum of diff - 1 over the differences above 1, and the metric is
\* min(100, gaps / total_expected * 100)
ClaimedLoss(window) ==
    LET sorted == Sort([n \in 1..Len(window) |-> window[n].seq_num])
        diffs == [n \in 1..(Len(sorted) - 1) |-> sorted[n + 1] - sorted[n]]
        total_expected == SumSeq(diffs)
        gaps == SumSeq([n \in 1..Len(diffs) |->
                            IF diffs[n] > 1 THEN diffs[n] - 1 ELSE 0])
    IN IF total_expected > 0
       THEN IF gaps >= total_expected THEN Frac(100, 1)
            ELSE Frac(gaps * 100, total_expected)
       ELSE Zero

\* C16: for any window of at least 2 jitter samples the snapshot's
\* packet_loss is min(100, gaps / total_expected * 100) over the sorted
\* sequence numbers of the window; the window 10, 11, 13, 14 yields 25%.
C16_PacketLossMetric ==
    (calm_calls > 0 /\ Len(LossWindow) >= 2)
        => FracEq(last_metrics.packet_loss, ClaimedLoss(LossWindow))

\* the sequence numbers of the window, in arrival order, each follow their
\* predecessor modulo 65536, and the run crosses from 65535 to 0
WrappingRun(window) ==
    /\ \A n \in 1..(Len(window) - 1) :
           window[n + 1].seq_num = (window[n].seq_num + 1) % 65536
    /\ \E n \in 1..(Len(window) - 1) :
           window[n].seq_num = 65535 /\ window[n + 1].seq_num = 0

\* C17: when the window's sequence numbers are a contiguous run modulo 65536
\* that crosses the 65535 to 0 boundary, the packet-loss computation follows
\* the circular interpretation: no gaps, so lost_packets is 0 and the
\* reported loss is 0, whenever the metric is computed at all (10 samples).
C17_WraparoundLoss ==
    (/\ calm_calls > 0
     /\ Len(statistics.jitter_samples) >= 10
     /\ WrappingRun(LossWindow))
        => /\ FracEq(last_metrics.packet_loss, Zero)
           /\ statistics.lost_packets = 0

\* the counters that get_metrics and get_status expose for the statistics st
ExposedCounters(st) ==
    LET m == MetricsFrom("total_packets", BlankMetrics, st, now).metrics
    IN <<m.total_packets, m.video_packets, m.rtp_packets, m.lost_packets,
         m.errors>>

\* C19: every buffer overrun in feed increments a counter that the
\* metrics/status snapshots expose.
C19_OverrunCounted ==
    [][overruns' = overruns + 1
           => ExposedCounters(statistics') # ExposedCounters(statistics)]_vars

\* stop_capture has set running to False and the analysis thread has not
\* ended yet
ShutdownRequested == ~running /\ an_pc \notin {"none", "stopped"}

\* C20: once stop_capture has set running to False, the analysis loop
\* starts no new iteration after observing the flag, and with the analysis
\* thread taking a step whenever it can, it eventually reaches its stopped
\* state: no step of the loop blocks forever.
C20_CooperativeShutdown ==
    /\ [][(an_pc = "while" /\ ~running /\ an_pc' # an_pc) => an_pc' = "stopped"]_vars
    /\ (ShutdownRequested ~> an_pc = "stopped")

\* the analysis thread has ended on the flag alone: stop_capture has not
\* terminated the process yet
C20_Witness ==
    /\ ~running
    /\ an_pc = "stopped"
    /\ capture_process = "alive"
    /\ main_pc = "stop_terminate"

\* the step is a direct _is_video_packet call
IsPortsCall == an_pc = "none" /\ packet' # NoPacket

\* C23: _is_video_packet(src, dst) is true if and only if src or dst is one
\* of 554, 8000, 8080, 1935 or lies in 16384..32767, and the call changes no
\* state of the capture.
C23_IsVideoPacket ==
    [][IsPortsCall =>
          LET src == packet'.src_port
              dst == packet'.dst_port
          IN /\ packet_data'.is_video <=>
                    \/ src \in {554, 8000, 8080, 1935}
                    \/ dst \in {554, 8000, 8080, 1935}
                    \/ (16384 <= src /\ src <= 32767)
                    \/ (16384 <= dst /\ dst <= 32767)
             /\ statistics' = statistics
             /\ packet_queue' = packet_queue
             /\ running' = running
             /\ capture_process' = capture_process]_vars

\* a call whose only media port is the upper limit of the RTP range
C23_Witness ==
    /\ packet.src_port = 32767
    /\ packet.dst_port = 32768
    /\ packet_data.is_video

\* the step is the entry of a feed call: append, overrun handling, i = 0
IsFeedEntry == feed_pc = "idle" /\ feed_pc' = "scan"

\* the chunk passed to the feed call that is entered
FedChunk == SubSeq(pending, 1, Len(pending) - Len(pending'))

\* C26: when the buffer after appending the chunk is longer than
\* max_buffer_size, feed replaces it by its last max_buffer_size / 2
\* characters (rounded up) and resets brace_count, in_string and escape_next
\* before it scans; otherwise it neither truncates nor resets.
C26_OverrunPolicy ==
    [][IsFeedEntry =>
          LET appended == buffer \o FedChunk
              half == (max_buffer_size + 1) \div 2
          IN IF Len(appended) > max_buffer_size
             THEN /\ buffer' = SubSeq(appended, Len(appended) - half + 1, Len(appended))
                  /\ brace_count' = 0
                  /\ in_string' = FALSE
                  /\ escape_next' = FALSE
                  /\ i' = 0
             ELSE /\ buffer' = appended
                  /\ brace_count' = brace_count
                  /\ in_string' = in_string
                  /\ escape_next' = escape_next]_vars

\* the second feed call of a never-closing input has just overrun the
\* buffer: the first call had left the scanner inside the opening brace
C26_Witness ==
    /\ feeds = 2
    /\ overruns = 1
    /\ garbage_overruns = 1
    /\ feed_pc = "scan"
    /\ i = 0
    /\ brace_count = 0
    /\ Len(buffer) = (max_buffer_size + 1) \div 2

\* the scan step about to be taken reads a backslash outside a string, with
\* no escape pending
ScansBackslashOutsideString ==
    /\ feed_pc = "scan"
    /\ i < Len(buffer)
    /\ buffer[i + 1] = BS
    /\ ~in_string
    /\ ~escape_next

\* the scan step about to be taken reads a brace or quote that directly
\* follows a backslash read outside a string
ScansAfterBackslashOutsideString ==
    /\ feed_pc = "scan"
    /\ 0 < i /\ i < Len(buffer)
    /\ buffer[i] = BS
    /\ buffer[i + 1] \in {LB, RB, QT}
    /\ ~in_string
    /\ ~StreamMask(stream)[consumed + i]

\* C27: a backslash read while in_string is false leaves escape_next false,
\* so a brace or quote that directly follows it outside a string is still
\* processed as a brace or quote.
C27_EscapeOnlyInString ==
    [][/\ ScansBackslashOutsideString => escape_next' = FALSE
       /\ ScansAfterBackslashOutsideString =>
              \/ brace_count' # brace_count
              \/ in_string' # in_string]_vars

\* a single feed call has overrun the buffer and returned, and the text it
\* retained for the scan was a closing brace followed by the last record of
\* the stream
StrayBraceThenRecord ==
    /\ AllDelivered
    /\ feeds = 1
    /\ overruns = 1
    /\ stream.garbage = <<>>
    /\ Len(stream.origin) = 2
    /\ LastN(StreamText(stream), (max_buffer_size + 1) \div 2)
           = <<RB>> \o Dumps(stream.origin[2])

\* C30: brace_count >= 0 in every reachable state of the parser: a closing
\* brace met outside a string at depth 0 does not drive the depth negative,
\* and the next well-formed record after it is still emitted.
C30_DepthNonNegative ==
    /\ brace_count >= 0
    /\ StrayBraceThenRecord => emitted = <<stream.origin[2]>>

\* the step is a whole get_metrics call
IsGetMetrics == rd_pc = "idle" /\ calm_calls' > 0

\* C24: a get_metrics or get_status call leaves every field of statistics
\* (the counters, lost_packets included, the sample lists and start_time)
\* exactly as it was before the call.
C24_SnapshotsMutateNothing == [][IsGetMetrics => statistics' = statistics]_vars

\* the gaps of the packet-loss computation over the current window: the sum
\* of diff - 1 over the differences above 1 of the sorted sequence numbers,
\* and 0 when the computation ends before it counts
WindowGaps ==
    IF Len(statistics.jitter_samples) < LossMinSamples THEN 0
    ELSE LossWalk(Sort([n \in 1..Len(LossWindow) |-> LossWindow[n].seq_num])).gaps

\* C25: after every packet-loss computation lost_packets equals the gaps of
\* that computation over the current window, also when it finds no gaps, a
\* total_expected of 0 or too few samples; and the lost_packets reported in
\* a snapshot is the one that belongs to the packet_loss of that snapshot.
C25_LostPacketsCurrent ==
    calm_calls > 0 =>
        /\ statistics.lost_packets = WindowGaps
        /\ last_metrics.lost_packets = WindowGaps

\* the mean of the jitter field over the last min(100, n) of the n samples
MeanOfRecent(samples) ==
    LET n == Len(samples)
        k == IF n < 100 THEN n ELSE 100
    IN Frac(SumSeq([j \in 1..k |-> samples[n - k + j].jitter]), k)

\* C28: with fewer than 2 jitter samples the jitter metric is 0; otherwise
\* it is the arithmetic mean of the jitter field over the min(100, n) most
\* recent samples only.
C28_JitterMetric ==
    calm_calls > 0 =>
        IF Len(statistics.jitter_samples) < 2
        THEN last_metrics.jitter = Zero
        ELSE FracEq(last_metrics.jitter, MeanOfRecent(statistics.jitter_samples))

\* a snapshot of more than 100 samples, the oldest of which has a jitter
\* that differs from the jitter of the samples in the window
C28_Witness ==
    /\ calm_calls > 0
    /\ Len(statistics.jitter_samples) > 100
    /\ statistics.jitter_samples[1].jitter = 0
    /\ FracEq(last_metrics.jitter, Frac(FrameGap, 1))

\* the sorted sequence numbers of the packet-loss window
SortedWindow == Sort([n \in 1..Len(LossWindow) |-> LossWindow[n].seq_num])

\* C29: the packet-loss percentage returned lies in the closed range 0..100
\* and the gaps of the computation never exceed its total_expected, also
\* for windows with duplicate sequence numbers and windows where the
\* wraparound correction is applied.
C29_LossInRange ==
    /\ calm_calls > 0 =>
           /\ last_metrics.packet_loss.d > 0
           /\ 0 <= last_metrics.packet_loss.n
           /\ last_metrics.packet_loss.n <= 100 * last_metrics.packet_loss.d
    /\ Len(statistics.jitter_samples) >= LossMinSamples =>
           LET w == LossWalk(SortedWindow) IN
           /\ 0 <= w.gaps
           /\ w.gaps <= w.total_expected

\* a snapshot of a window that holds a sequence number twice and two
\* neighbours more than 32768 apart, where the correction applies
C29_Witness ==
    /\ calm_calls > 0
    /\ Len(statistics.jitter_samples) >= LossMinSamples
    /\ \E n \in 1..(Len(SortedWindow) - 1) : SortedWindow[n + 1] = SortedWindow[n]
    /\ \E n \in 1..(Len(SortedWindow) - 1) :
           SortedWindow[n + 1] - SortedWindow[n] > 32768
    /\ last_metrics.packet_loss # Zero

\* the value is a number: the quotient of a division that is defined
IsNumber(f) == f.d > 0 /\ f.n >= 0

\* the bitrate samples of wall-clock age <= 10 s
RecentBitrateSamples == EvictByAge(statistics.bitrate_samples, now)

\* fewer than two bitrate samples in the window, or a window of zero span
BitrateDegenerate ==
    \/ Len(RecentBitrateSamples) < 2
    \/ RecentBitrateSamples[Len(RecentBitrateSamples)].real_time
           = RecentBitrateSamples[1].real_time

\* a packet-loss window of at least LossMinSamples samples that all carry
\* the same sequence number: total_expected is 0
LossDegenerate ==
    /\ Len(statistics.jitter_samples) >= LossMinSamples
    /\ \A n \in 1..Len(LossWindow) : LossWindow[n].seq_num = LossWindow[1].seq_num

\* C22: whatever the statistics, each of the jitter, delay, latency, bitrate
\* and packet-loss metrics of a snapshot is a number, and it is 0 in the
\* degenerate cases: no sample, a single sample, samples of zero span, a
\* total_expected of 0.
C22_DegenerateNeutral ==
    calm_calls > 0 =>
        /\ IsNumber(last_metrics.jitter)
        /\ IsNumber(last_metrics.delay)
        /\ IsNumber(last_metrics.latency)
        /\ IsNumber(last_metrics.bitrate)
        /\ IsNumber(last_metrics.packet_loss)
        /\ Len(statistics.jitter_samples) < 2 =>
               /\ FracEq(last_metrics.jitter, Zero)
               /\ FracEq(last_metrics.delay, Zero)
               /\ FracEq(last_metrics.latency, Zero)
               /\ FracEq(last_metrics.packet_loss, Zero)
        /\ BitrateDegenerate => FracEq(last_metrics.bitrate, Zero)
        /\ LossDegenerate => FracEq(last_metrics.packet_loss, Zero)

\* a snapshot of two bitrate samples inserted at the same instant and of a
\* packet-loss window whose sequence numbers are all equal
C22_Witness ==
    /\ calm_calls > 0
    /\ Len(statistics.bitrate_samples) = 2
    /\ BitrateDegenerate
    /\ LossDegenerate

\* the whole text of the upstream process has been read and processed, and
\* the analysis thread is in the next readline
TextProcessed ==
    /\ an_pc = "readline"
    /\ feed_pc = "idle"
    /\ pending = <<>>
    /\ feeds > 0

\* number of media records in the text
MediaRecords == Cardinality({n \in 1..Len(stream.origin) : stream.origin[n] = RecMedia})

\* C21: no single bad input terminates the session: once the analysis path
\* has handled an unparsable record, a record with an out-of-range field or
\* a chunk of never-closing input that overruns the buffer, the analysis
\* loop is still running, and the valid media records delivered afterwards
\* are counted in total_packets and enqueued.
C21_BadInputSurvived ==
    /\ running => an_pc # "stopped"
    /\ (TextProcessed /\ overruns = garbage_overruns)
           => /\ statistics.total_packets = MediaRecords
              /\ enqueues = MediaRecords

\* the timestamp of the last call lies 1000 ms or more after the last
\* stored sample: that call was rejected for its delta
Stalled ==
    /\ statistics.jitter_samples # <<>>
    /\ up_time - statistics.jitter_samples[Len(statistics.jitter_samples)].timestamp
           >= 1000

\* C31: a rejection does not advance the last stored sample, so once a
\* sample has been rejected because delta_ms >= 1000, every later sample
\* whose capture timestamp does not go back is rejected as well and
\* jitter_samples never changes again.
C31_JitterFreezes ==
    [][/\ (/\ IsJitterCall
            /\ statistics.jitter_samples # <<>>
            /\ up_time' - statistics.jitter_samples[
                              Len(statistics.jitter_samples)].timestamp >= 1000)
           => statistics'.jitter_samples = statistics.jitter_samples
       /\ (IsJitterCall /\ Stalled /\ up_time' >= up_time)
           => /\ statistics'.jitter_samples = statistics.jitter_samples
              /\ Stalled']_vars

\* after a rejection for a delta of 1000 ms, a packet 999 ms after the
\* rejected one has been rejected as well
C31_Witness ==
    /\ Stalled
    /\ frames_left = 0
    /\ up_time - statistics.jitter_samples[Len(statistics.jitter_samples)].timestamp
           = 1999
    /\ accepted = statistics.jitter_samples

\* a single feed call on a fresh parser received a text of complete
\* well-formed records only, overran the buffer and has returned
OverrunOnWholeRecords ==
    /\ AllDelivered
    /\ feeds = 1
    /\ overruns = 1
    /\ stream.garbage = <<>>

\* C32: the overrun truncation discards only incomplete data: every
\* complete well-formed top-level record contained in the buffer plus the
\* new chunk when a feed call overruns is still emitted by that call.
C32_TruncationKeepsRecords == OverrunOnWholeRecords => emitted = stream.origin

\* the analysis thread is in its loop, outside the processing of a record
InLoopControl == an_pc \in {"while", "poll", "readline"}

\* C33: a stop request is not an error: for every interleaving of
\* stop_capture with an iteration of the analysis loop in progress, the
\* steps the loop takes after running was set to False, up to its end,
\* leave statistics.errors as it was, as long as no record is processed.
C33_StopIsNoError ==
    [][(~running /\ InLoopControl) => statistics'.errors = statistics.errors]_vars

\* a status that reports whether the process is alive instead of the flag
GetStatusProcessAlive == capture_process = "alive"

\* 'running': self.running, the flag that get_status reports, line 760
GetStatusRunning == running

\* C34: the running flag changes only in start_capture (to True) and in
\* stop_capture (to False); when the analysis loop leaves through its
\* "process terminated" branch the flag stays True, and get_status keeps
\* reporting running = True with the analysis thread ended until
\* stop_capture is called.
C34_RunningOnlyByStartStop ==
    [][/\ (~running /\ running')
            => /\ CanStart
               /\ an_pc' = "while"
               /\ capture_process' = "alive"
       /\ (running /\ ~running')
            => main_pc = "idle" /\ main_pc' = "stop_terminate"
       /\ (an_pc = "poll" /\ an_pc' = "stopped") => running' = running
       /\ (GetStatusRunning /\ an_pc = "stopped" /\ main_pc' = main_pc)
            => GetStatusRunning' /\ an_pc' = "stopped"]_vars

\* the process has exited on its own, the loop has ended, stop_capture has
\* not been called and get_status still reports running
C34_Witness ==
    /\ GetStatusRunning
    /\ an_pc = "stopped"
    /\ capture_process = "exited"
    /\ main_pc = "idle"

\* C35: in every reachable state rtp_packets <= video_packets <=
\* total_packets, and no step decreases any of the three counters.
C35_CountersOrdered ==
    /\ [](/\ statistics.rtp_packets <= statistics.video_packets
          /\ statistics.video_packets <= statistics.total_packets)
    /\ [][/\ statistics'.total_packets >= statistics.total_packets
          /\ statistics'.video_packets >= statistics.video_packets
          /\ statistics'.rtp_packets >= statistics.rtp_packets]_vars

\* the three counters differ: a record that is not video, a video record
\* without RTP and an RTP record have been counted
C35_Witness ==
    /\ 0 < statistics.rtp_packets
    /\ statistics.rtp_packets < statistics.video_packets
    /\ statistics.video_packets < statistics.total_packets

\* a valid media RTP packet whose fields pass the checks of lines 562-565
MediaRtp(pkt) ==
    /\ ValidRecord(pkt)
    /\ IsVideoPacket(pkt.src_port, pkt.dst_port)
    /\ pkt.rtp
    /\ pkt.seq_num \in 0..65535
    /\ pkt.payload_type \in 0..127

\* the step returns from _process_packet
IsProcessPacketReturn == InProcessPacket(an_pc) /\ ~InProcessPacket(an_pc')

\* C36: jitter_samples and bitrate_samples are changed only while a valid
\* media RTP packet with payload type 96, 97, 98, 99 or 26 is processed; the
\* call for a media RTP packet with another payload type in 0..127 returns
\* with rtp_packets one higher, one more event in the queue's enqueue count
\* and both windows as they were; every stored seq_num is in 0..65535.
C36_WindowsOnlyByVideoRtp ==
    /\ [][/\ (\/ statistics'.jitter_samples # statistics.jitter_samples
               \/ statistics'.bitrate_samples # statistics.bitrate_samples)
              => /\ InProcessPacket(an_pc)
                 /\ MediaRtp(packet)
                 /\ packet.payload_type \in {96, 97, 98, 99, 26}
          /\ (/\ IsProcessPacketReturn
              /\ MediaRtp(packet)
              /\ packet.payload_type \notin {96, 97, 98, 99, 26})
              => /\ statistics'.rtp_packets = pp_entry.statistics.rtp_packets + 1
                 /\ enqueues' = pp_entry.enqueues + 1
                 /\ statistics'.jitter_samples = pp_entry.statistics.jitter_samples
                 /\ statistics'.bitrate_samples = pp_entry.statistics.bitrate_samples]_vars
    /\ [](\A k \in 1..Len(statistics.jitter_samples) :
              statistics.jitter_samples[k].seq_num \in 0..65535)

\* the wall-clock time since the last bitrate update: each update stores a
\* sample with the current time as its last one
SinceLastUpdate ==
    now - statistics.bitrate_samples[Len(statistics.bitrate_samples)].real_time

\* C37: a get_metrics call made more than 10 s of wall-clock time after the
\* last bitrate update returns bitrate 0 and leaves the stale samples
\* stored; bitrate_samples is changed only by an update, never by a read.
C37_BitrateDecays ==
    [][/\ (/\ IsGetMetrics
           /\ statistics.bitrate_samples # <<>>
           /\ SinceLastUpdate > 10000)
          => /\ last_metrics'.bitrate = Zero
             /\ statistics'.bitrate_samples = statistics.bitrate_samples
       /\ statistics'.bitrate_samples # statistics.bitrate_samples
          => IsBitrateCall]_vars

\* a snapshot with bitrate 0 taken over samples 4 s apart that are older
\* than 10 s and still stored
C37_Witness ==
    /\ calm_calls > 0
    /\ Len(statistics.bitrate_samples) >= 2
    /\ statistics.bitrate_samples[2].real_time
           - statistics.bitrate_samples[1].real_time = 4000
    /\ SinceLastUpdate > 10000
    /\ last_metrics.bitrate = Zero

\* C38: for every pair of ports the legacy PacketCapture._is_video_packet
\* returns what EnhancedPacketCapture._is_video_packet returns for it.
C38_LegacyAgrees ==
    [][IsPortsCall =>
          (packet_data'.is_video
               <=> IsVideoPacket(packet'.src_port, packet'.dst_port))]_vars

\* metrics holds the analysis of a stream of at least 2 packets
StreamAnalysed == "packet_loss_percent" \in DOMAIN metrics

\* C39: for every stream of at least 2 packets with sequence numbers in
\* 0..65535, _analyze_single_stream reports packet_loss_percent in 0..100
\* and expected_packets >= total_packets, also for streams with duplicate
\* sequence numbers or more packets than the span of their sequence numbers.
C39_OfflineLossInRange ==
    StreamAnalysed =>
        /\ metrics.packet_loss_percent.n >= 0
        /\ metrics.packet_loss_percent.n <= 100 * metrics.packet_loss_percent.d
        /\ metrics.expected_packets >= metrics.total_packets

====
